---- MODULE Spec2Model ----
(***************************************************************************)
(* Model of the Mezzano image loader of kboot (loader/mezzano.c and        *)
(* include/loader/mezzano.h): fixnum encoding, the kernel-visible memory   *)
(* map, the page-info array with the two buddy allocators, and the header  *)
(* checks of the 'mezzano' configuration command.                          *)
(*                                                                         *)
(* 64-bit quantities are kept at their width.  A uint64_t that takes part  *)
(* in shifts is a word of four 16-bit limbs <<w3, w2, w1, w0>> (w3 most    *)
(* significant).  A physical address is a record [hi, pg, lo]: bits 63..39,*)
(* bits 38..12 (the frame number inside the 512 GiB window) and bits 11..0.*)
(***************************************************************************)
EXTENDS Integers, Sequences, FiniteSets, TLC

VARIABLES
    \* mezzano_boot_information_t
    memory_map,            \* the entries in use, a sequence of [start, end]
    n_memory_map_entries,  \* raw count
    buddy_bin_32,          \* [0..19] -> [first_page, count]
    buddy_bin_64,          \* [0..26] -> [first_page, count]
    \* page-info array at mezzano_physical_info_address, by frame number
    page_info,             \* frame -> [flags, extra, next, prev]
    nil,                   \* loader->header.nil
    released,              \* frames handed to buddy_free_page so far
    \* the last call and what it did (dprintf/mprintf output, mmu_map call)
    log,
    n_calls,               \* calls made so far (bounded)
    \* config_cmd_mezzano
    cfg,                   \* command inputs and outcome
    \* fixnum / unfixnum
    fx,                    \* [pc, v, enc, dec]
    \* mezzano_loader_load
    pc,                    \* the stage mezzano_loader_load is about to run
    stages,                \* the stages it has completed, in order
    kernel_mmu,            \* pages mapped in the kernel paging context (mmu)
    transition_mmu,        \* pages mapped in the transition paging context
    loader,                \* mezzano_loader_t: freestanding, page_count,
                           \* n_pages_loaded; the walk position of
                           \* mezzano_read_wired_pages; the platform's memory
    disk,                  \* the image: [bml4, blocks], block id -> entries
    block_map,             \* the block map materialised by read_block_map_level
    chunk,                 \* page_chunk_t of mezzano_read_wired_pages
    allocs,                \* memory_alloc calls so far: [type, start, pages, stage]
    loaded,                \* pages load_page has loaded: [virtual, phys, info, backed]
    range_type,            \* kboot's memory ranges: frame -> range type
    block_cache,           \* loader->block_cache: the block ids, head first
    efi_system_table,      \* boot_info->efi_system_table
    device_reads           \* device_read / fs_read calls of 0x1000 bytes so far:
                           \* [block, st]

loadVars == <<pc, stages, kernel_mmu, transition_mmu, loader, disk, block_map,
              chunk, allocs, loaded, range_type, block_cache, device_reads,
              efi_system_table>>

vars == <<memory_map, n_memory_map_entries, buddy_bin_32, buddy_bin_64,
          page_info, nil, released, log, n_calls, cfg, fx, loadVars>>

(***************************************************************************)
(* 64-bit words as limbs.                                                  *)
(***************************************************************************)
LimbBase == 2^16
LimbTop  == 2^15

\* two's complement word of a small integer (|n| < 2^31)
ToWord(n) ==
    << IF n < 0 THEN LimbBase - 1 ELSE 0,
       IF n < 0 THEN LimbBase - 1 ELSE 0,
       (n \div LimbBase) % LimbBase,
       n % LimbBase >>

\* value of a word as a signed integer; only words of at most 31
\* significant bits occur where this is used
ToInt(w) ==
    IF w[1] = 0 /\ w[2] = 0 /\ w[3] < LimbTop
    THEN w[3] * LimbBase + w[4]
    ELSE (w[3] - LimbBase) * LimbBase + w[4]

\* uint64_t fixnum(int64_t val) { return val << 1; }
\* (gcc and clang compile the signed shift to a plain 64-bit shl)
fixnum(val) ==
    << (2 * val[1] + val[2] \div LimbTop) % LimbBase,
       (2 * val[2] + val[3] \div LimbTop) % LimbBase,
       (2 * val[3] + val[4] \div LimbTop) % LimbBase,
       (2 * val[4]) % LimbBase >>

\* int64_t unfixnum(uint64_t fix) { return ((int64_t)fix) >> 1; }
unfixnum_logical(fix) ==
    << fix[1] \div 2,
       fix[2] \div 2 + (fix[1] % 2) * LimbTop,
       fix[3] \div 2 + (fix[2] % 2) * LimbTop,
       fix[4] \div 2 + (fix[3] % 2) * LimbTop >>

unfixnum(fix) ==
    << fix[1] \div 2 + (fix[1] \div LimbTop) * LimbTop,
       fix[2] \div 2 + (fix[1] % 2) * LimbTop,
       fix[3] \div 2 + (fix[2] % 2) * LimbTop,
       fix[4] \div 2 + (fix[3] % 2) * LimbTop >>

\* fixnum / unfixnum on the small integers the allocator handles
Fix(n)   == ToInt(fixnum(ToWord(n)))
Unfix(n) == ToInt(unfixnum(ToWord(n)))

(***************************************************************************)
(* Physical addresses: [hi, pg, lo] = bits 63..39, 38..12, 11..0.          *)
(***************************************************************************)
log2_4k_page == 12
PAGE_SIZE == 2^log2_4k_page
HiLimit == 2^25
PgLimit == 2^27

Addr(h, p, l) == [hi |-> h, pg |-> p, lo |-> l]
PageAddr(p) == Addr(0, p, 0)
ZeroAddr == Addr(0, 0, 0)

AddrLT(a, b) ==
    \/ a.hi < b.hi
    \/ a.hi = b.hi /\ a.pg < b.pg
    \/ a.hi = b.hi /\ a.pg = b.pg /\ a.lo < b.lo
AddrLE(a, b) == a = b \/ AddrLT(a, b)

\* the next page boundary above a, wrapping at 2^64 as uint64_t does
NextPage(a) ==
    IF a.pg + 1 < PgLimit THEN Addr(a.hi, a.pg + 1, 0)
    ELSE Addr((a.hi + 1) % HiLimit, 0, 0)

\* round_down(val, nearest), nearest a power of two up to PAGE_SIZE
round_down(val, nearest) == [val EXCEPT !.lo = val.lo - (val.lo % nearest)]

\* round_up(val, nearest): val if aligned, else round_down(val) + nearest,
\* computed in phys_ptr_t (64 bits)
round_up(val, nearest) ==
    IF val.lo % nearest = 0 THEN val
    ELSE IF val.lo - (val.lo % nearest) + nearest < PAGE_SIZE
         THEN [val EXCEPT !.lo = val.lo - (val.lo % nearest) + nearest]
         ELSE NextPage(val)

\* static const uint64_t mezzano_physical_map_size = 0x8000000000ull;
mezzano_physical_map_size == Addr(1, 0, 0)

(***************************************************************************)
(* The kernel-visible memory map.                                          *)
(***************************************************************************)
mezzano_max_memory_map_size == 32

\* the array memory_map[mezzano_max_memory_map_size] is modelled by the
\* sequence of its entries in use (the code reads and moves no others):
\* memory_map[i] of the source, 0 <= i < n_memory_map_entries, is element i + 1
Entry(s, e) == [start |-> s, end |-> e]
EmptyMap == <<>>

\* static bool in_range(start, end, value)
in_range(start, end, value) == AddrLE(start, value) /\ AddrLE(value, end)

\* crunch_memory_map: the merge pass, a TODO in the source: it changes nothing
crunch_memory_map(mm) == mm

\* the search loop of mezzano_insert_into_memory_map: the index it stops at
\* and whether it stopped to merge
RECURSIVE InsertScan(_, _, _, _, _)
InsertScan(mm, n, start, end, i) ==
    IF i >= n THEN [i |-> i, merge |-> FALSE]
    ELSE IF AddrLT(end, mm[i + 1].start) THEN [i |-> i, merge |-> FALSE]
    ELSE IF \/ in_range(mm[i + 1].start, mm[i + 1].end, start)
            \/ in_range(mm[i + 1].start, mm[i + 1].end, end)
         THEN [i |-> i, merge |-> TRUE]
         ELSE InsertScan(mm, n, start, end, i + 1)

MapIsFull_off(n) == FALSE

MapIsFull(n) == n = mezzano_max_memory_map_size

CountPlusOne_fixnum(n) == n + Fix(1)

\* boot_info->n_memory_map_entries += 1;
CountPlusOne(n) == n + 1

\* mezzano_insert_into_memory_map as a function of the map:
\* the new map, the new count and what happened
mezzano_insert_into_memory_map(mm, n, start, end) ==
    LET r == InsertScan(mm, n, start, end, 0) IN
    IF r.merge
    THEN [map |-> crunch_memory_map(
                    [mm EXCEPT ![r.i + 1] =
                        Entry(IF AddrLT(start, mm[r.i + 1].start)
                              THEN start ELSE mm[r.i + 1].start,
                              IF AddrLT(mm[r.i + 1].end, end)
                              THEN end ELSE mm[r.i + 1].end)]),
          n |-> n, outcome |-> "merged", idx |-> r.i]
    ELSE IF MapIsFull(n)
    THEN [map |-> mm, n |-> n, outcome |-> "dropped", idx |-> r.i]
    ELSE [map |-> crunch_memory_map(
                    \* memmove of entries i..n-1 one up, then set entry i
                    SubSeq(mm, 1, r.i) \o <<Entry(start, end)>>
                        \o SubSeq(mm, r.i + 1, n)),
          n |-> CountPlusOne(n), outcome |-> "inserted", idx |-> r.i]

(***************************************************************************)
(* Page-info array and the buddy allocators.  A frame is named by its      *)
(* frame number (physical address / PAGE_SIZE); every address the          *)
(* allocator handles is page aligned.  flags, next, prev, first_page and   *)
(* count hold the raw 64-bit values the kernel will read.                  *)
(***************************************************************************)
mezzano_n_buddy_bins_32_bit == 32 - log2_4k_page
mezzano_n_buddy_bins_64_bit == 39 - log2_4k_page

\* enum page_type
page_type_other == 0
page_type_free == 1
page_type_page_table == 7

\* frames of [0, 4 GiB): l < 0x100000000ull
Below4G_all(l) == TRUE

Below4G(l) == l < 2^(32 - log2_4k_page)

ZeroInfo == [flags |-> 0, extra |-> 0, next |-> 0, prev |-> 0]

page_info_flags(info, page) == info[page].flags
set_page_info_flags(info, page, value) == [info EXCEPT ![page].flags = value]

page_info_type(info, page) == Unfix(page_info_flags(info, page)) % 256

set_page_info_type(info, page, value) ==
    LET flags == Unfix(page_info_flags(info, page)) IN
    set_page_info_flags(info, page, Fix(flags - (flags % 256) + value))

page_info_bin(info, page) == (Unfix(page_info_flags(info, page)) \div 256) % 256

set_page_info_bin_none(info, page, value) == info

set_page_info_bin(info, page, value) ==
    LET flags == Unfix(page_info_flags(info, page)) IN
    set_page_info_flags(info, page,
        Fix(flags - ((flags \div 256) % 256) * 256 + value * 256))

page_info_next(info, page) == info[page].next
set_page_info_next(info, page, value) == [info EXCEPT ![page].next = value]
page_info_prev(info, page) == info[page].prev
set_page_info_prev(info, page, value) == [info EXCEPT ![page].prev = value]

\* buddy(k, x) = x ^ (1 << (k + log2_4k_page)), on frame numbers
buddy_next(k, x) == x + 2^k

\* x ^ ((phys_ptr_t)1 << (k + log2_4k_page)), on frame numbers
buddy(k, x) == IF (x \div 2^k) % 2 = 1 THEN x - 2^k ELSE x + 2^k

\* page_exists: the frame lies in some memory-map entry
page_exists(mm, n, page) ==
    \E i \in 0..(n - 1) :
        AddrLE(mm[i + 1].start, PageAddr(page)) /\ AddrLT(PageAddr(page), mm[i + 1].end)

StopCombining_any_bin(mm, n, info, k, m, p) ==
    \/ k = m
    \/ ~page_exists(mm, n, p)
    \/ page_info_type(info, p) # page_type_free

\* the loop condition of buddy_free_page that ends coalescing
StopCombining(mm, n, info, k, m, p) ==
    \/ k = m
    \/ ~page_exists(mm, n, p)
    \/ page_info_type(info, p) # page_type_free
    \/ (page_info_type(info, p) = page_type_free /\ page_info_bin(info, p) # k)

\* "remove buddy from avail[k]": unlink p from bin k
UnlinkBuddy_keep_count(buddies, info, nl, k, p) ==
    LET b1 == IF buddies[k].first_page = Fix(p)
              THEN [buddies EXCEPT ![k].first_page = page_info_next(info, p)]
              ELSE buddies
        i1 == IF page_info_next(info, p) # nl
              THEN set_page_info_prev(info, Unfix(page_info_next(info, p)),
                                      page_info_prev(info, p))
              ELSE info
        i2 == IF page_info_prev(i1, p) # nl
              THEN set_page_info_next(i1, Unfix(page_info_prev(i1, p)),
                                      page_info_next(i1, p))
              ELSE i1
    IN [buddies |-> b1, info |-> i2]

UnlinkBuddy(buddies, info, nl, k, p) ==
    LET b1 == IF buddies[k].first_page = Fix(p)
              THEN [buddies EXCEPT ![k].first_page = page_info_next(info, p)]
              ELSE buddies
        i1 == IF page_info_next(info, p) # nl
              THEN set_page_info_prev(info, Unfix(page_info_next(info, p)),
                                      page_info_prev(info, p))
              ELSE info
        i2 == IF page_info_prev(i1, p) # nl
              THEN set_page_info_next(i1, Unfix(page_info_prev(i1, p)),
                                      page_info_next(i1, p))
              ELSE i1
    IN [buddies |-> [b1 EXCEPT ![k].count = b1[k].count - Fix(1)], info |-> i2]

\* the while(1) loop of buddy_free_page: coalesce upwards from order k
RECURSIVE Coalesce(_, _, _, _, _, _, _, _)
Coalesce(mm, n, buddies, info, nl, m, k, l) ==
    LET p == buddy(k, l) IN
    IF StopCombining(mm, n, info, k, m, p)
    THEN [buddies |-> buddies, info |-> info, k |-> k, l |-> l]
    ELSE LET u == UnlinkBuddy(buddies, info, nl, k, p) IN
         Coalesce(mm, n, u.buddies, u.info, nl, m, k + 1, IF p < l THEN p ELSE l)

PushFree_count_raw(buddies, info, nl, k, l) ==
    LET i1 == set_page_info_type(info, l, page_type_free)
        i2 == set_page_info_bin(i1, l, k)
        i3 == set_page_info_next(i2, l, buddies[k].first_page)
        i4 == set_page_info_prev(i3, l, nl)
        i5 == IF buddies[k].first_page # nl
              THEN set_page_info_prev(i4, Unfix(buddies[k].first_page), Fix(l))
              ELSE i4
    IN [buddies |-> [buddies EXCEPT ![k] =
                        [first_page |-> Fix(l), count |-> buddies[k].count + 1]],
        info |-> i5]

PushFree_no_prev(buddies, info, nl, k, l) ==
    LET i1 == set_page_info_type(info, l, page_type_free)
        i2 == set_page_info_bin(i1, l, k)
        i3 == set_page_info_next(i2, l, buddies[k].first_page)
        i4 == set_page_info_prev(i3, l, nl)
    IN [buddies |-> [buddies EXCEPT ![k] =
                        [first_page |-> Fix(l), count |-> buddies[k].count + Fix(1)]],
        info |-> i4]

\* the tail of buddy_free_page: push l at the head of bin k
PushFree(buddies, info, nl, k, l) ==
    LET i1 == set_page_info_type(info, l, page_type_free)
        i2 == set_page_info_bin(i1, l, k)
        i3 == set_page_info_next(i2, l, buddies[k].first_page)
        i4 == set_page_info_prev(i3, l, nl)
        i5 == IF buddies[k].first_page # nl
              THEN set_page_info_prev(i4, Unfix(buddies[k].first_page), Fix(l))
              ELSE i4
    IN [buddies |-> [buddies EXCEPT ![k] =
                        [first_page |-> Fix(l), count |-> buddies[k].count + Fix(1)]],
        info |-> i5]

\* buddy_free_page on one array of bins, m its top bin
BuddyFreeIn(mm, n, buddies, info, nl, m, l) ==
    LET c == Coalesce(mm, n, buddies, info, nl, m, 0, l) IN
    PushFree(c.buddies, c.info, nl, c.k, c.l)

(***************************************************************************)
(* Header checks of config_cmd_mezzano.                                    *)
(***************************************************************************)
mezzano_protocol_major == 0
mezzano_protocol_minor == 26

\* 500ull * 1024 * 1024
MinTotalMemory == 500 * 1024 * 1024

ProtocolMajorOk_any(major) == TRUE

\* if(data->header.protocol_major != mezzano_protocol_major) goto fail;
ProtocolMajorOk(major) == major = mezzano_protocol_major

ProtocolMinorOk_atmost(major, minor) == minor <= mezzano_protocol_minor

\* the negation of the minor test that goes to fail
ProtocolMinorOk(major, minor) ==
    ~ \/ (major = 0 /\ minor # mezzano_protocol_minor)
      \/ (major # 0 /\ minor > mezzano_protocol_minor)

MemoryTestFails_ignores_option(in) == in.total_memory < MinTotalMemory

\* if(!skip_memory_test) { ... if(total_memory < 500ull * 1024 * 1024) goto fail; }
MemoryTestFails(in) == ~in.skip_memory_test /\ in.total_memory < MinTotalMemory

\* the calls that acquire or release something, up to the option loop:
\* mezzano_locate_image (fs_open when the path is no device), malloc of the
\* loader state, strdup of the device name
LocateCalls(in) ==
    (IF in.locate = "file" THEN <<"fs_open">> ELSE <<>>) \o <<"malloc", "strdup">>

\* the memory test's call
MemoryTestCalls(in) == IF in.skip_memory_test THEN <<>> ELSE <<"memory_snapshot">>

FailPath_keeps_handle(in, msg, calls) ==
    [ret |-> FALSE, error |-> msg, loader_set |-> FALSE, data_freed |-> TRUE,
     fs_closed |-> FALSE,
     calls |-> calls \o <<"free(device_name)", "free(data)">>]

\* the fail label: fs_close if a file was opened, free(data->device_name),
\* free(data), return false
FailPath(in, msg, calls) ==
    [ret |-> FALSE, error |-> msg, loader_set |-> FALSE, data_freed |-> TRUE,
     fs_closed |-> in.locate = "file",
     calls |-> calls \o (IF in.locate = "file" THEN <<"fs_close">> ELSE <<>>)
                     \o <<"free(device_name)", "free(data)">>]

\* config_cmd_mezzano from its inputs: the arguments, what
\* mezzano_locate_image found, the option tokens, the memory snapshot's
\* total, the header read's status and the header
ConfigCmd(in) ==
    IF ~in.args_ok
    THEN [ret |-> FALSE, error |-> "invalid arguments", loader_set |-> FALSE,
          data_freed |-> FALSE, fs_closed |-> FALSE, calls |-> <<>>]
    ELSE IF in.locate = "fail"
    THEN [ret |-> FALSE, error |-> "locate", loader_set |-> FALSE,
          data_freed |-> FALSE, fs_closed |-> FALSE, calls |-> <<>>]
    ELSE IF in.option = "bad_type" THEN FailPath(in, "Bad option", LocateCalls(in))
    ELSE IF in.option = "unknown"
    THEN FailPath(in, "Unsupported option", LocateCalls(in))
    ELSE IF MemoryTestFails(in)
    THEN FailPath(in, "Insufficient memory", LocateCalls(in) \o MemoryTestCalls(in))
    ELSE LET calls == LocateCalls(in) \o MemoryTestCalls(in) \o <<"read header">> IN
    IF in.read_st # 0 THEN FailPath(in, "IO error", calls)
    ELSE IF ~in.magic_ok THEN FailPath(in, "bad header", calls)
    ELSE IF ~ProtocolMajorOk(in.protocol_major)
    THEN FailPath(in, "Unsupported protocol major", calls)
    ELSE IF ~ProtocolMinorOk(in.protocol_major, in.protocol_minor)
    THEN FailPath(in, "Unsupported protocol minor", calls)
    ELSE [ret |-> TRUE, error |-> "", loader_set |-> TRUE,
          data_freed |-> FALSE, fs_closed |-> FALSE,
          calls |-> calls \o <<"environ_set_loader">>]

(***************************************************************************)
(* Bounds and inputs.                                                      *)
(***************************************************************************)
MaxCalls == 3          \* mezzano_add_physical_memory_range calls per run

P(n) == PageAddr(n)
TopAddr == Addr(HiLimit - 1, PgLimit - 1, PAGE_SIZE - 1)   \* 2^64 - 1
OneTiB == Addr(2, 0, 0)                                    \* 0x100_0000_0000

\* firmware ranges <<orig_start, orig_end>>
InputRanges ==
    { <<P(10), P(20)>>, <<P(20), P(30)>>, <<P(15), P(25)>>, <<P(30), P(40)>>,
      <<P(5), P(45)>>, <<P(12), P(13)>>,
      <<Addr(0, 10, 1), Addr(0, 19, PAGE_SIZE - 1)>>,
      <<Addr(0, 14, 1), Addr(0, 14, 2)>>,
      <<ZeroAddr, OneTiB>>,
      <<mezzano_physical_map_size, OneTiB>>,
      <<Addr(0, PgLimit - 1, 1), Addr(1, 0, 5)>>,
      <<P(20), P(10)>>, <<P(10), P(10)>>,
      <<ZeroAddr, TopAddr>> }

\* the map after adding the ranges rs[1..i] to an empty map
RECURSIVE BuildMap(_, _)
BuildMap(rs, i) ==
    IF i = 0 THEN [map |-> EmptyMap, n |-> 0]
    ELSE LET b == BuildMap(rs, i - 1)
             r == mezzano_insert_into_memory_map(b.map, b.n, rs[i][1], rs[i][2])
         IN [map |-> r.map, n |-> r.n]

\* a map one entry short of full: what 31 calls with separate ranges, far from
\* the inputs and in ascending order, leave (each is appended after the last)
AlmostFull ==
    [map |-> [i \in 1..(mezzano_max_memory_map_size - 1) |->
                 Entry(P(1000 + 10 * i), P(1005 + 10 * i))],
     n |-> mezzano_max_memory_map_size - 1]

NoLog == [outcome |-> "none", orig_start |-> ZeroAddr, orig_end |-> ZeroAddr,
          start |-> ZeroAddr, end |-> ZeroAddr]

IdleCfg == [pc |-> "idle"]
NoPlatform == [ranges |-> <<>>, ram |-> {}, image |-> {}]
IdleLoader == [freestanding |-> FALSE, page_count |-> 0, n_pages_loaded |-> 0,
               cursor |-> 0, platform |-> NoPlatform, firmware |-> "bios"]
NoDisk == [bml4 |-> 0, blocks |-> <<>>]
NoChunk == [phys_addr |-> 0, remaining |-> 0]

\* mezzano_loader_load has not been entered
LoadIdle ==
    /\ pc = "idle"
    /\ stages = <<>>
    /\ kernel_mmu = {}
    /\ transition_mmu = {}
    /\ loader = IdleLoader
    /\ disk = NoDisk
    /\ block_map = 0
    /\ chunk = NoChunk
    /\ allocs = <<>>
    /\ loaded = <<>>
    /\ block_cache = <<>>
    /\ device_reads = <<>>
    /\ efi_system_table = "0"

IdleFx == [pc |-> "idle", v |-> ToWord(0), enc |-> ToWord(0), dec |-> ToWord(0)]
NoBins32 == [k \in 0..(mezzano_n_buddy_bins_32_bit - 1) |-> [first_page |-> 0, count |-> 0]]
NoBins64 == [k \in 0..(mezzano_n_buddy_bins_64_bit - 1) |-> [first_page |-> 0, count |-> 0]]

(***************************************************************************)
(* Building the memory map: mezzano_generate_memory_map calls              *)
(* mezzano_add_physical_memory_range once per firmware range.              *)
(***************************************************************************)
InitMap ==
    /\ \E b \in {[map |-> EmptyMap, n |-> 0], AlmostFull} :
          /\ memory_map = b.map
          /\ n_memory_map_entries = b.n
    /\ buddy_bin_32 = NoBins32
    /\ buddy_bin_64 = NoBins64
    /\ page_info = <<>>
    /\ nil = 0
    /\ released = {}
    /\ log = NoLog
    /\ n_calls = 0
    /\ cfg = IdleCfg
    /\ fx = IdleFx
    /\ LoadIdle
    /\ range_type = <<>>

\* the range mezzano_add_physical_memory_range keeps of (orig_start, orig_end):
\* rounded, clipped; keep is FALSE on its early returns
ClipRange(orig_start, orig_end) ==
    LET start == round_down(orig_start, PAGE_SIZE)
        end0 == round_up(orig_end, PAGE_SIZE)
    IN IF AddrLE(mezzano_physical_map_size, start)
       THEN [keep |-> FALSE, start |-> start, end |-> end0]
       ELSE LET end == IF AddrLT(mezzano_physical_map_size, end0)
                       THEN mezzano_physical_map_size ELSE end0
            IN [keep |-> AddrLT(start, end), start |-> start, end |-> end]

mezzano_add_physical_memory_range(orig_start, orig_end) ==
    /\ n_calls < MaxCalls
    /\ n_calls' = n_calls + 1
    /\ LET c == ClipRange(orig_start, orig_end) IN
       IF ~c.keep
       THEN /\ log' = [outcome |-> "ignored", orig_start |-> orig_start,
                       orig_end |-> orig_end, start |-> c.start, end |-> c.end]
            /\ UNCHANGED <<memory_map, n_memory_map_entries>>
       ELSE LET r == mezzano_insert_into_memory_map(memory_map, n_memory_map_entries,
                                                    c.start, c.end)
            IN /\ memory_map' = r.map
               /\ n_memory_map_entries' = r.n
               \* mmu_map(mmu, mezzano_physical_map_address + start, start, end - start)
               \* happened for [start, end); outcome is the insertion's
               /\ log' = [outcome |-> r.outcome, orig_start |-> orig_start,
                          orig_end |-> orig_end, start |-> c.start, end |-> c.end]
    /\ UNCHANGED <<buddy_bin_32, buddy_bin_64, page_info, nil, released, cfg, fx,
                   loadVars>>

NextMap == \E r \in InputRanges : mezzano_add_physical_memory_range(r[1], r[2])

SpecMap == InitMap /\ [][NextMap]_vars

(***************************************************************************)
(* Releasing frames: the loop of mezzano_loader_load over the final kboot  *)
(* memory map calls buddy_free_page once for each free frame above 1 MiB.  *)
(***************************************************************************)
NumFrames == 7         \* frames followed from FirstFrame on
FirstFrame == 256 + 8  \* 0x108000: the first 32 KiB-aligned block above 1 MiB
Frame4G == 2^(32 - log2_4k_page)

\* the frame at 1 MiB
OneMiBFrame == (1024 * 1024) \div PAGE_SIZE

\* the frames the model follows
CandidateFrames ==
    FirstFrame..(FirstFrame + NumFrames - 1) \cup (Frame4G - 2)..(Frame4G + 1)
        \cup (OneMiBFrame - 2)..(OneMiBFrame + 1)

\* the frames kboot may have used for page tables (MEMORY_TYPE_PAGETABLES)
PageTableFrames == {FirstFrame + 2, Frame4G + 1, OneMiBFrame - 2}

\* the frames kboot may have kept allocated (MEMORY_TYPE_ALLOCATED): loaded
\* pages, page-info backing, the boot-info page
AllocatedFrames == {FirstFrame + 1, Frame4G - 1, OneMiBFrame - 1}

\* kboot's final memory map over the frames followed, three ways
RangeTypings ==
    { [f \in CandidateFrames |-> "FREE"],
      [f \in CandidateFrames |->
          IF f \in PageTableFrames THEN "PAGETABLES" ELSE "FREE"],
      [f \in CandidateFrames |->
          IF f \in AllocatedFrames THEN "ALLOCATED" ELSE "FREE"] }

\* memory maps, each the result of mezzano_add_physical_memory_range calls
BuddyMaps ==
    { BuildMap(<< <<P(FirstFrame), P(FirstFrame + NumFrames)>> >>, 1),
      BuildMap(<< <<P(FirstFrame), P(FirstFrame + 3)>>,
                  <<P(FirstFrame + 4), P(FirstFrame + NumFrames)>> >>, 2),
      BuildMap(<< <<P(Frame4G - 2), P(Frame4G + 2)>> >>, 1),
      BuildMap(<< <<P(OneMiBFrame - 2), P(OneMiBFrame + 2)>> >>, 1) }

\* header.nil is a tagged object pointer, never a fixnum: its low bit is set
NilValues == {9}

InitBuddy ==
    /\ \E b \in BuddyMaps :
          /\ memory_map = b.map
          /\ n_memory_map_entries = b.n
          \* mezzano_finalize_memory_map: zeroed info for every frame of the map
          /\ page_info = [f \in {g \in CandidateFrames : page_exists(b.map, b.n, g)}
                            |-> ZeroInfo]
    /\ nil \in NilValues
    \* "Initialize buddy bins."
    /\ buddy_bin_32 = [k \in 0..(mezzano_n_buddy_bins_32_bit - 1) |->
                          [first_page |-> nil, count |-> Fix(0)]]
    /\ buddy_bin_64 = [k \in 0..(mezzano_n_buddy_bins_64_bit - 1) |->
                          [first_page |-> nil, count |-> Fix(0)]]
    /\ released = {}
    /\ log = NoLog
    /\ n_calls = 0
    /\ cfg = IdleCfg
    /\ fx = IdleFx
    /\ LoadIdle
    \* memory_finalize(&kboot_memory_map)
    /\ range_type \in RangeTypings

Above1MiB_inclusive(l) == l >= (1024 * 1024) \div PAGE_SIZE

\* range->start + i > 1024 * 1024, for the page-aligned address of frame l
Above1MiB(l) == l > (1024 * 1024) \div PAGE_SIZE

buddy_free_page(l) ==
    /\ l \in DOMAIN page_info
    /\ l \notin released
    /\ range_type[l] = "FREE"
    /\ Above1MiB(l)
    /\ released' = released \cup {l}
    /\ IF Below4G(l)
       THEN LET r == BuddyFreeIn(memory_map, n_memory_map_entries, buddy_bin_32,
                                 page_info, nil, mezzano_n_buddy_bins_32_bit - 1, l)
            IN /\ buddy_bin_32' = r.buddies
               /\ page_info' = r.info
               /\ UNCHANGED buddy_bin_64
       ELSE LET r == BuddyFreeIn(memory_map, n_memory_map_entries, buddy_bin_64,
                                 page_info, nil, mezzano_n_buddy_bins_64_bit - 1, l)
            IN /\ buddy_bin_64' = r.buddies
               /\ page_info' = r.info
               /\ UNCHANGED buddy_bin_32
    /\ UNCHANGED <<memory_map, n_memory_map_entries, nil, log, n_calls, cfg, fx,
                   loadVars>>

\* the other branch of the loop: a frame of a MEMORY_TYPE_PAGETABLES range
mark_page_table(l) ==
    /\ l \in DOMAIN page_info
    /\ range_type[l] = "PAGETABLES"
    /\ page_info_type(page_info, l) # page_type_page_table
    /\ page_info' = set_page_info_type(page_info, l, page_type_page_table)
    /\ UNCHANGED <<memory_map, n_memory_map_entries, buddy_bin_32, buddy_bin_64,
                   nil, released, log, n_calls, cfg, fx, loadVars>>

NextBuddy ==
    \E l \in CandidateFrames : buddy_free_page(l) \/ mark_page_table(l)

SpecBuddy == InitBuddy /\ [][NextBuddy]_vars

(***************************************************************************)
(* Reading the allocator as the kernel does (dump_one_buddy_allocator):    *)
(* follow next from a bin's first_page until nil.                          *)
(***************************************************************************)
RECURSIVE Chain(_, _, _, _)
Chain(info, nl, current, fuel) ==
    IF current = nl \/ fuel = 0 \/ Unfix(current) \notin DOMAIN info THEN <<>>
    ELSE <<Unfix(current)>> \o
         Chain(info, nl, page_info_next(info, Unfix(current)), fuel - 1)

BinList(buddies, k) ==
    IF buddies[k].first_page = nil THEN <<>>
    ELSE Chain(page_info, nil, buddies[k].first_page,
               Cardinality(DOMAIN page_info) + 1)

Bins32 == 0..(mezzano_n_buddy_bins_32_bit - 1)
Bins64 == 0..(mezzano_n_buddy_bins_64_bit - 1)

\* the list of every bin of one array
Lists(buddies) == [k \in DOMAIN buddies |-> BinList(buddies, k)]

\* the lists of bins k, k+1, ... one after the other
RECURSIVE ListsFrom(_, _)
ListsFrom(ls, k) ==
    IF k \notin DOMAIN ls THEN <<>> ELSE ls[k] \o ListsFrom(ls, k + 1)

\* every listed frame, bin after bin, buddy_bin_32 then buddy_bin_64
AllListed == ListsFrom(Lists(buddy_bin_32), 0) \o ListsFrom(Lists(buddy_bin_64), 0)

SeqCount(sq, f) == Cardinality({i \in 1..Len(sq) : sq[i] = f})

IsFree(f) == page_info_type(page_info, f) = page_type_free

\* f is listed, once (all being every listed frame), in the bin its page-info
\* names, of the array for its address
ListedInOwnBin(all, f) ==
    /\ SeqCount(all, f) = 1
    /\ IF Below4G(f)
       THEN page_info_bin(page_info, f) \in Bins32
            /\ SeqCount(BinList(buddy_bin_32, page_info_bin(page_info, f)), f) = 1
       ELSE page_info_bin(page_info, f) \in Bins64
            /\ SeqCount(BinList(buddy_bin_64, page_info_bin(page_info, f)), f) = 1

\* f lies inside the block of a frame listed in a higher bin than f's own
AbsorbedByHigherBlock(all, f) ==
    \E L \in DOMAIN page_info :
        /\ L # f
        /\ L <= f
        /\ IsFree(L)
        /\ page_info_bin(page_info, L) > page_info_bin(page_info, f)
        /\ f < L + 2^page_info_bin(page_info, L)
        /\ Below4G(L) = Below4G(f)
        /\ ListedInOwnBin(all, L)

Block(b, j) == b..(b + 2^j - 1)

\* bin k1 of `buddies` holds exactly frame L, once; every other bin of it is empty
OnlyEntry(buddies, k1, L) ==
    \A k \in DOMAIN buddies :
        IF k = k1
        THEN BinList(buddies, k) = <<L>> /\ buddies[k].count = Fix(1)
        ELSE buddies[k].first_page = nil /\ buddies[k].count = Fix(0)

AllEmpty(buddies) ==
    \A k \in DOMAIN buddies : buddies[k].first_page = nil /\ buddies[k].count = Fix(0)

\* the released frames are exactly one aligned block of order k+1 inside the map
ReleasedIsBlock(b, k) ==
    /\ b % 2^(k + 1) = 0
    /\ released = Block(b, k + 1)

\* C4: once exactly the pages of two buddy blocks of order k (an aligned block
\* of order k+1 inside the memory map) have been released, in whatever order,
\* bin k+1 holds exactly one entry, the lower buddy, and every other bin is
\* empty with count fixnum(0).
C4_BuddiesCoalesce ==
    \A k \in 0..2 : \A b \in released :
        ReleasedIsBlock(b, k) =>
            IF Below4G(b)
            THEN OnlyEntry(buddy_bin_32, k + 1, b) /\ AllEmpty(buddy_bin_64)
            ELSE OnlyEntry(buddy_bin_64, k + 1, b) /\ AllEmpty(buddy_bin_32)

\* two order-1 buddies have been released page by page
C4_Witness ==
    /\ ReleasedIsBlock(FirstFrame, 1)
    /\ BinList(buddy_bin_32, 2) = <<FirstFrame>>

\* the loop over kboot's final memory map has visited every frame
FreeLoopDone ==
    \A f \in DOMAIN page_info :
        /\ (range_type[f] = "FREE" /\ f > OneMiBFrame) => f \in released
        /\ range_type[f] = "PAGETABLES" =>
               page_info_type(page_info, f) = page_type_page_table

\* the frames of the blocks on the lists of one array of bins
ListedBlockFrames(buddies) ==
    UNION { UNION { Block(BinList(buddies, k)[i], k) :
                      i \in 1..Len(BinList(buddies, k)) } : k \in DOMAIN buddies }

\* C17: a frame is released into a buddy bin only if its range is FREE and its
\* address is above 1 MiB, and when the loop is over every such frame has been
\* released; no block on a buddy list holds a frame at or below 1 MiB or a
\* frame of an ALLOCATED or PAGETABLES range.
C17_OnlyFreeAbove1MiBReleased ==
    /\ \A f \in released : range_type[f] = "FREE" /\ f > OneMiBFrame
    /\ FreeLoopDone =>
           released = {f \in DOMAIN page_info :
                         range_type[f] = "FREE" /\ f > OneMiBFrame}
    /\ \A f \in ListedBlockFrames(buddy_bin_32) \cup ListedBlockFrames(buddy_bin_64) :
           /\ f \in DOMAIN page_info
           /\ range_type[f] = "FREE"
           /\ f > OneMiBFrame

\* the loop is over in a map of FREE frames around 1 MiB: only the frame above
\* 1 MiB has been released
C17_Witness ==
    /\ FreeLoopDone
    /\ OneMiBFrame \in DOMAIN page_info
    /\ range_type[OneMiBFrame] = "FREE"
    /\ range_type[OneMiBFrame - 1] = "FREE"
    /\ released = {OneMiBFrame + 1}
    /\ BinList(buddy_bin_32, 0) = <<OneMiBFrame + 1>>

(***************************************************************************)
(* The 'mezzano' command: one run of config_cmd_mezzano.                   *)
(***************************************************************************)
ConfigInputs ==
    [args_ok : BOOLEAN,
     locate : {"fail", "disk", "file"},
     option : {"none", "bad_type", "unknown"},
     skip_memory_test : BOOLEAN,
     total_memory : {0, MinTotalMemory - 1, MinTotalMemory, 2^30},
     read_st : {0, 1},
     magic_ok : BOOLEAN,
     protocol_major : {0, 1, 2},
     protocol_minor : {0, mezzano_protocol_minor - 1, mezzano_protocol_minor,
                       mezzano_protocol_minor + 1}]

InitConfig ==
    /\ memory_map = EmptyMap
    /\ n_memory_map_entries = 0
    /\ buddy_bin_32 = NoBins32
    /\ buddy_bin_64 = NoBins64
    /\ page_info = <<>>
    /\ nil = 0
    /\ released = {}
    /\ log = NoLog
    /\ n_calls = 0
    /\ cfg = IdleCfg
    /\ fx = IdleFx
    /\ LoadIdle
    /\ range_type = <<>>

config_cmd_mezzano(in) ==
    /\ cfg.pc = "idle"
    /\ cfg' = [pc |-> "done", in |-> in, out |-> ConfigCmd(in)]
    /\ UNCHANGED <<memory_map, n_memory_map_entries, buddy_bin_32, buddy_bin_64,
                   page_info, nil, released, log, n_calls, fx, loadVars>>

NextConfig == \E in \in ConfigInputs : config_cmd_mezzano(in)

SpecConfig == InitConfig /\ [][NextConfig]_vars

\* the command got as far as a header with valid magic
HeaderChecked ==
    /\ cfg.pc = "done"
    /\ cfg.in.args_ok
    /\ cfg.in.locate # "fail"
    /\ cfg.in.option = "none"
    /\ (cfg.in.skip_memory_test \/ cfg.in.total_memory >= MinTotalMemory)
    /\ cfg.in.read_st = 0
    /\ cfg.in.magic_ok

\* C5 (as stated): minor = supported minor + 1 is rejected with major 0 and
\* accepted with major 1.
C5_GateAcceptsMajor1 ==
    (HeaderChecked /\ cfg.in.protocol_minor = mezzano_protocol_minor + 1) =>
        /\ (cfg.in.protocol_major = 0 => ~cfg.out.ret)
        /\ (cfg.in.protocol_major = 1 => cfg.out.ret)

\* C5 (amended): a header with valid magic and minor = supported minor + 1 is
\* rejected with major 0 (unsupported minor) and rejected with major 1 too
\* (unsupported major); neither registers the loader.
C5_GateRejectsBothMajors ==
    (HeaderChecked /\ cfg.in.protocol_minor = mezzano_protocol_minor + 1) =>
        /\ (cfg.in.protocol_major = 0 =>
               ~cfg.out.ret /\ ~cfg.out.loader_set
               /\ cfg.out.error = "Unsupported protocol minor")
        /\ (cfg.in.protocol_major = 1 =>
               ~cfg.out.ret /\ ~cfg.out.loader_set
               /\ cfg.out.error = "Unsupported protocol major")

C5_Witness ==
    /\ HeaderChecked
    /\ cfg.in.protocol_minor = mezzano_protocol_minor + 1
    /\ cfg.in.protocol_major = 1
    /\ ~cfg.out.ret

\* C6 (as stated): a header with valid magic is accepted exactly when
\* (major = 0 and minor = supported) or (major # 0 and minor <= supported).
C6_AcceptsPerMinorRule ==
    HeaderChecked =>
        (cfg.out.ret <=>
            \/ (cfg.in.protocol_major = 0
                /\ cfg.in.protocol_minor = mezzano_protocol_minor)
            \/ (cfg.in.protocol_major # 0
                /\ cfg.in.protocol_minor <= mezzano_protocol_minor))

\* C6 (amended): a header with valid magic is accepted exactly when major equals
\* the loader's major (0) and minor equals the loader's minor; every other pair
\* is rejected with a configuration error.
C6_AcceptsOnlyExactVersion ==
    HeaderChecked =>
        /\ (cfg.out.ret <=>
               (cfg.in.protocol_major = mezzano_protocol_major
                /\ cfg.in.protocol_minor = mezzano_protocol_minor))
        /\ (~cfg.out.ret =>
               cfg.out.error \in {"Unsupported protocol major",
                                  "Unsupported protocol minor"})

C6_Witness ==
    /\ HeaderChecked
    /\ cfg.in.protocol_major = mezzano_protocol_major
    /\ cfg.in.protocol_minor = mezzano_protocol_minor
    /\ cfg.out.ret
    /\ cfg.out.loader_set

(***************************************************************************)
(* fixnum and unfixnum on 64-bit values.                                   *)
(***************************************************************************)
FxInputs ==
    { <<a, b, c, d>> : a \in {0, 1, 2^14 - 1, 2^14, 2^15 - 1, 2^15, 2^15 + 2^14 - 1,
                              2^15 + 2^14, 2^16 - 1},
                       b \in {0, 2^15, 2^16 - 1},
                       c \in {0, 2^15, 2^16 - 1},
                       d \in {0, 1, 2^15, 2^16 - 1} }

InitFixnum ==
    /\ memory_map = EmptyMap
    /\ n_memory_map_entries = 0
    /\ buddy_bin_32 = NoBins32
    /\ buddy_bin_64 = NoBins64
    /\ page_info = <<>>
    /\ nil = 0
    /\ released = {}
    /\ log = NoLog
    /\ n_calls = 0
    /\ cfg = IdleCfg
    /\ fx = IdleFx
    /\ LoadIdle
    /\ range_type = <<>>

FxEncode(v) ==
    /\ fx.pc = "idle"
    /\ fx' = [pc |-> "encoded", v |-> v, enc |-> fixnum(v), dec |-> ToWord(0)]
    /\ UNCHANGED <<memory_map, n_memory_map_entries, buddy_bin_32, buddy_bin_64,
                   page_info, nil, released, log, n_calls, cfg, loadVars>>

FxDecode ==
    /\ fx.pc = "encoded"
    /\ fx' = [fx EXCEPT !.pc = "decoded", !.dec = unfixnum(fx.enc)]
    /\ UNCHANGED <<memory_map, n_memory_map_entries, buddy_bin_32, buddy_bin_64,
                   page_info, nil, released, log, n_calls, cfg, loadVars>>

NextFixnum ==
    \/ \E v \in FxInputs : FxEncode(v)
    \/ FxDecode

SpecFixnum == InitFixnum /\ [][NextFixnum]_vars

\* -2^62 <= v < 2^62 as a 64-bit two's complement word: bits 63 and 62 agree
InFixnumRange(v) == v[1] \div 2^15 = (v[1] \div 2^14) % 2

\* C7: for every v in [-2^62, 2^62), unfixnum(fixnum(v)) = v, and the low bit
\* of fixnum(v) is 0.
C7_FixnumRoundTrip ==
    /\ (fx.pc \in {"encoded", "decoded"} /\ InFixnumRange(fx.v)) => fx.enc[4] % 2 = 0
    /\ (fx.pc = "decoded" /\ InFixnumRange(fx.v)) => fx.dec = fx.v

\* a negative value near -2^62 has made the round trip
C7_Witness ==
    /\ fx.pc = "decoded"
    /\ InFixnumRange(fx.v)
    /\ fx.v[1] = 2^15 + 2^14
    /\ fx.dec = fx.v
    /\ fx.enc # fx.v

(***************************************************************************)
(* Claims about the memory map (SpecMap).                                  *)
(***************************************************************************)
\* the indices of the entries in use, as sequence positions
MapEntries == 1..n_memory_map_entries

\* C1: the memory map is strictly sorted by start and no two entries touch or
\* overlap: for all i < j, memory_map[i].end < memory_map[j].start.
C1_MapSortedAndSeparate ==
    \A i, j \in MapEntries :
        i < j => AddrLT(memory_map[i].end, memory_map[j].start)

AddrMax(a, b) == IF AddrLT(a, b) THEN b ELSE a
AddrMin(a, b) == IF AddrLT(a, b) THEN a ELSE b

\* the last call passed a range on to mezzano_insert_into_memory_map
Inserting == log'.outcome \in {"merged", "inserted", "dropped"}

\* C8: inserting (s, e) with a <= s <= b for an existing entry (a, b) adds no
\* entry and replaces such an entry by (a, max(b, e)).
C8_StartInsideEntryMerges ==
    [][ (Inserting
         /\ \E j \in MapEntries :
               AddrLE(memory_map[j].start, log'.start)
               /\ AddrLE(log'.start, memory_map[j].end))
        => /\ n_memory_map_entries' = n_memory_map_entries
           /\ \E j \in MapEntries :
                 /\ AddrLE(memory_map[j].start, log'.start)
                 /\ AddrLE(log'.start, memory_map[j].end)
                 /\ memory_map' =
                      [memory_map EXCEPT ![j] =
                          Entry(memory_map[j].start,
                                AddrMax(memory_map[j].end, log'.end))] ]_vars

\* neither end of [s, e] lies within an entry of the map
MergesWithNone(s, e) ==
    \A j \in MapEntries :
        /\ ~(AddrLE(memory_map[j].start, s) /\ AddrLE(s, memory_map[j].end))
        /\ ~(AddrLE(memory_map[j].start, e) /\ AddrLE(e, memory_map[j].end))

\* C9: n_memory_map_entries never exceeds 32; with 32 entries present, a range
\* that merges with no entry is dropped and the count and every entry stay as
\* they were.
C9_FullMapDropsRange ==
    /\ n_memory_map_entries <= 32
    /\ [][ /\ n_memory_map_entries' <= 32
           /\ (Inserting /\ n_memory_map_entries = 32
               /\ MergesWithNone(log'.start, log'.end))
              => /\ log'.outcome = "dropped"
                 /\ memory_map' = memory_map
                 /\ n_memory_map_entries' = n_memory_map_entries ]_vars

\* a range was dropped at a full map
C9_Witness ==
    /\ n_memory_map_entries = 32
    /\ log.outcome = "dropped"
    /\ log.start = P(30)

\* orig_end rounded up to a page as an integer, not as a 64-bit value
RoundUpExact(val) ==
    IF val.lo = 0 THEN val
    ELSE IF val.pg + 1 < PgLimit THEN Addr(val.hi, val.pg + 1, 0)
    ELSE Addr(val.hi + 1, 0, 0)

\* C10: every call maps and inserts exactly [s, e), s = orig_start rounded down
\* to 4 KiB, e = min(orig_end rounded up to 4 KiB, 512 GiB), and nothing when
\* s >= 512 GiB or e <= s.
C10_MapsExactlyClippedRange ==
    log.outcome # "none" =>
        LET s == round_down(log.orig_start, PAGE_SIZE)
            e == AddrMin(RoundUpExact(log.orig_end), mezzano_physical_map_size)
        IN IF AddrLE(mezzano_physical_map_size, s) \/ AddrLE(e, s)
           THEN log.outcome = "ignored"
           ELSE log.outcome # "ignored" /\ log.start = s /\ log.end = e

(***************************************************************************)
(* The block map: four levels of 512-entry blocks, an entry is             *)
(* (block id << 8) | flags.  A block is kept by its non-zero entries.      *)
(***************************************************************************)
BLOCK_MAP_PRESENT == 1
BLOCK_MAP_WRITABLE == 2
BLOCK_MAP_ZERO_FILL == 4
BLOCK_MAP_WIRED == 16
BLOCK_MAP_TRACK_DIRTY == 32
BLOCK_MAP_TRANSIENT == 64
BLOCK_MAP_ID_SHIFT == 8

\* (id << BLOCK_MAP_ID_SHIFT) | flags
E(id, flags) == id * 2^BLOCK_MAP_ID_SHIFT + flags
\* (entry & flag) != 0, flag a single bit
Has(entry, flag) == (entry \div flag) % 2 = 1
\* entry >> BLOCK_MAP_ID_SHIFT
BlockId(entry) == entry \div 2^BLOCK_MAP_ID_SHIFT
\* block[i] of a uint64_t[512]
At(block, i) == IF i \in DOMAIN block THEN block[i] ELSE 0

\* bit b of a 64-bit word
WordBit(w, b) == (w[4 - (b \div 16)] \div 2^(b % 16)) % 2
\* (virtual >> shift) & 0x3FF
BlockIndex_wide(virtual, shift) ==
    (WordBit(virtual, shift) + 2 * WordBit(virtual, shift + 1)
        + 4 * WordBit(virtual, shift + 2) + 8 * WordBit(virtual, shift + 3)
        + 16 * WordBit(virtual, shift + 4) + 32 * WordBit(virtual, shift + 5)
        + 64 * WordBit(virtual, shift + 6) + 128 * WordBit(virtual, shift + 7)
        + 256 * WordBit(virtual, shift + 8) + 512 * WordBit(virtual, shift + 9))

\* (virtual >> shift) & 0x1FF
BlockIndex(virtual, shift) ==
    (WordBit(virtual, shift) + 2 * WordBit(virtual, shift + 1)
        + 4 * WordBit(virtual, shift + 2) + 8 * WordBit(virtual, shift + 3)
        + 16 * WordBit(virtual, shift + 4) + 32 * WordBit(virtual, shift + 5)
        + 64 * WordBit(virtual, shift + 6) + 128 * WordBit(virtual, shift + 7)
        + 256 * WordBit(virtual, shift + 8))

\* read_cached_block: the 4 KiB block at block_id * 0x1000 of the image
read_cached_block(d, block_id) == d.blocks[block_id]

\* uint64_t read_info_for_page(loader, virtual)
InfoForPage(d, virtual) ==
    LET bml4i == BlockIndex(virtual, 39)
        bml3i == BlockIndex(virtual, 30)
        bml2i == BlockIndex(virtual, 21)
        bml1i == BlockIndex(virtual, 12)
        bml4 == read_cached_block(d, d.bml4)
    IN IF ~Has(At(bml4, bml4i), BLOCK_MAP_PRESENT) THEN 0
       ELSE LET bml3 == read_cached_block(d, BlockId(At(bml4, bml4i)))
            IN IF ~Has(At(bml3, bml3i), BLOCK_MAP_PRESENT) THEN 0
               ELSE LET bml2 == read_cached_block(d, BlockId(At(bml3, bml3i)))
                    IN IF ~Has(At(bml2, bml2i), BLOCK_MAP_PRESENT) THEN 0
                       ELSE At(read_cached_block(d, BlockId(At(bml2, bml2i))), bml1i)

\* the loop of read_cached_block finds an entry of the block
CacheHit(cache, block_id) == \E n \in 1..Len(cache) : cache[n] = block_id

\* the entry the loop stops at: the first of the block from the head
CacheEntry(cache, block_id) ==
    CHOOSE n \in 1..Len(cache) :
        cache[n] = block_id /\ \A m \in 1..(n - 1) : cache[m] # block_id

MoveToFront_drops_head(cache, n) ==
    <<cache[n]>> \o SubSeq(cache, 2, n - 1) \o SubSeq(cache, n + 1, Len(cache))

\* *prev = e->next; e->next = loader->block_cache; loader->block_cache = e;
MoveToFront(cache, n) ==
    <<cache[n]>> \o SubSeq(cache, 1, n - 1) \o SubSeq(cache, n + 1, Len(cache))

\* loader->block_cache when read_cached_block(loader, block_id) returns (or
\* stops in boot_error): a miss puts the new entry at the head before the read
CacheAfter(cache, block_id) ==
    IF CacheHit(cache, block_id)
    THEN MoveToFront(cache, CacheEntry(cache, block_id))
    ELSE <<block_id>> \o cache

\* the block ids read_info_for_page asks read_cached_block for, in order
InfoRequests(d, virtual) ==
    LET e4 == At(read_cached_block(d, d.bml4), BlockIndex(virtual, 39))
        e3 == At(read_cached_block(d, BlockId(e4)), BlockIndex(virtual, 30))
        e2 == At(read_cached_block(d, BlockId(e3)), BlockIndex(virtual, 21))
    IN IF ~Has(e4, BLOCK_MAP_PRESENT) THEN <<d.bml4>>
       ELSE IF ~Has(e3, BLOCK_MAP_PRESENT) THEN <<d.bml4, BlockId(e4)>>
       ELSE IF ~Has(e2, BLOCK_MAP_PRESENT) THEN <<d.bml4, BlockId(e4), BlockId(e3)>>
       ELSE <<d.bml4, BlockId(e4), BlockId(e3), BlockId(e2)>>

\* the cache and the reads after the requests reqs[1..i], all reads succeeding
RECURSIVE CacheFold(_, _, _, _)
CacheFold(cache, reads, reqs, i) ==
    IF i = 0 THEN [cache |-> cache, reads |-> reads]
    ELSE LET b == CacheFold(cache, reads, reqs, i - 1)
         IN [cache |-> CacheAfter(b.cache, reqs[i]),
             reads |-> IF CacheHit(b.cache, reqs[i]) THEN b.reads
                       ELSE Append(b.reads, [block |-> reqs[i], st |-> 0])]

\* 0xDEADBEEF0000 and its four indices
V0 == <<0, 57005, 48879, 0>>
V0i4 == 445
V0i3 == 182
V0i2 == 503
V0i1 == 240

\* images in which 0xDEADBEEF0000 is the only PRESENT address, its data block
\* 42: the bare path; the path next to entries that lack PRESENT but name a
\* block; the path with the other flags set
OnlyV0Images ==
    { [bml4 |-> 1,
       blocks |-> (1 :> (V0i4 :> E(2, BLOCK_MAP_PRESENT)))
              @@ (2 :> (V0i3 :> E(3, BLOCK_MAP_PRESENT)))
              @@ (3 :> (V0i2 :> E(4, BLOCK_MAP_PRESENT)))
              @@ (4 :> (V0i1 :> E(42, BLOCK_MAP_PRESENT)))],
      [bml4 |-> 1,
       blocks |-> (1 :> (V0i4 :> E(2, BLOCK_MAP_PRESENT)))
              @@ (2 :> (V0i3 :> E(3, BLOCK_MAP_PRESENT)))
              @@ (3 :> ((V0i2 :> E(4, BLOCK_MAP_PRESENT))
                        @@ ((V0i2 - 1) :> E(4, BLOCK_MAP_WIRED))))
              @@ (4 :> ((V0i1 :> E(42, BLOCK_MAP_PRESENT))
                        @@ ((V0i1 + 1) :> E(43, BLOCK_MAP_WRITABLE))))],
      [bml4 |-> 7,
       blocks |-> (7 :> (V0i4 :> E(9, BLOCK_MAP_PRESENT)))
              @@ (9 :> (V0i3 :> E(8, BLOCK_MAP_PRESENT)))
              @@ (8 :> (V0i2 :> E(6, BLOCK_MAP_PRESENT)))
              @@ (6 :> (V0i1 :> E(42, BLOCK_MAP_PRESENT + BLOCK_MAP_WRITABLE
                                          + BLOCK_MAP_WIRED)))] }

LookupImages ==
    OnlyV0Images \cup
    { [bml4 |-> 1, blocks |-> (1 :> <<>>)],
      [bml4 |-> 1,
       blocks |-> (1 :> (V0i4 :> E(2, BLOCK_MAP_PRESENT)))
              @@ (2 :> ((V0i3 :> E(3, BLOCK_MAP_PRESENT))
                        @@ ((V0i3 + 1) :> E(3, BLOCK_MAP_PRESENT))))
              @@ (3 :> (V0i2 :> E(4, BLOCK_MAP_PRESENT)))
              @@ (4 :> ((V0i1 :> E(42, BLOCK_MAP_PRESENT))
                        @@ ((V0i1 - 16) :> E(44, BLOCK_MAP_PRESENT + BLOCK_MAP_ZERO_FILL))))] }

\* addresses around 0xDEADBEEF0000: other bits 63..48, other indices at each
\* of the four levels, other bits 11..0
LookupAddresses ==
    { <<a, b, c, d>> : a \in {0, 1, 2^16 - 1},
                       b \in {57005, 57005 - 128, 57005 - 1},
                       c \in {48879, 48879 + 2^14 - 2^15, 48879 - 32, 48879 - 1},
                       d \in {0, 1, 2^12, 2^12 - 1} }

InitLookup ==
    /\ memory_map = EmptyMap
    /\ n_memory_map_entries = 0
    /\ buddy_bin_32 = NoBins32
    /\ buddy_bin_64 = NoBins64
    /\ page_info = <<>>
    /\ nil = 0
    /\ released = {}
    /\ log = NoLog
    /\ n_calls = 0
    /\ cfg = IdleCfg
    /\ fx = IdleFx
    /\ pc = "idle"
    /\ stages = <<>>
    /\ kernel_mmu = {}
    /\ transition_mmu = {}
    /\ loader = IdleLoader
    /\ disk \in LookupImages
    /\ block_map = 0
    /\ chunk = NoChunk
    /\ allocs = <<>>
    /\ loaded = <<>>
    /\ range_type = <<>>
    /\ block_cache = <<>>
    /\ device_reads = <<>>
    /\ efi_system_table = "0"

read_info_for_page(virtual) ==
    /\ log = NoLog
    /\ log' = [outcome |-> "read_info_for_page", virtual |-> virtual,
               ret |-> InfoForPage(disk, virtual)]
    /\ LET reqs == InfoRequests(disk, virtual)
           c == CacheFold(block_cache, device_reads, reqs, Len(reqs))
       IN /\ block_cache' = c.cache
          /\ device_reads' = c.reads
    /\ UNCHANGED <<memory_map, n_memory_map_entries, buddy_bin_32, buddy_bin_64,
                   page_info, nil, released, n_calls, cfg, fx, pc, stages,
                   kernel_mmu, transition_mmu, loader, disk, block_map, chunk,
                   allocs, loaded, range_type, efi_system_table>>

NextLookup == \E virtual \in LookupAddresses : read_info_for_page(virtual)

SpecLookup == InitLookup /\ [][NextLookup]_vars

\* bits 47..39, 38..30, 29..21 and 20..12 of an address, limb by limb
PathOf(virtual) ==
    << (virtual[2] \div 128) % 512,
       (virtual[2] % 128) * 4 + virtual[3] \div 2^14,
       (virtual[3] \div 32) % 512,
       (virtual[3] % 32) * 16 + virtual[4] \div 2^12 >>

\* the entries read down the path of an address from header.bml4, each block
\* named by the id of the entry above; reading stops at an entry without
\* PRESENT
Walk(d, path) ==
    LET e4 == At(d.blocks[d.bml4], path[1])
        e3 == At(d.blocks[BlockId(e4)], path[2])
        e2 == At(d.blocks[BlockId(e3)], path[3])
    IN IF ~Has(e4, BLOCK_MAP_PRESENT) THEN <<e4>>
       ELSE IF ~Has(e3, BLOCK_MAP_PRESENT) THEN <<e4, e3>>
       ELSE IF ~Has(e2, BLOCK_MAP_PRESENT) THEN <<e4, e3, e2>>
       ELSE <<e4, e3, e2, At(d.blocks[BlockId(e2)], path[4])>>

Looked == log.outcome = "read_info_for_page"

\* C13 (general part): read_info_for_page(V) is 0 when the entry of V's index
\* bits at level 4, 3 or 2 lacks PRESENT, and is otherwise the level-1 entry
\* of bits 20..12 of V, the blocks being those named by entry >> 8 from
\* header.bml4 down.
C13_WalksFourLevels ==
    Looked =>
        LET w == Walk(disk, PathOf(log.virtual))
        IN IF Len(w) < 4 THEN log.ret = 0 ELSE log.ret = w[4]

\* C13 as stated: in an image where only V0 is PRESENT, with data block 42,
\* every V other than V0 gives 0 and V0 gives an entry of block id 42.
C13_OnlyV0Resolves ==
    (Looked /\ disk \in OnlyV0Images) =>
        IF log.virtual = V0 THEN BlockId(log.ret) = 42 ELSE log.ret = 0

\* C13 (amended): the walk is as in the general part, and in an image where
\* only V0 is PRESENT, with data block 42, every V with V0's bits 47..12 gives
\* the entry of block id 42, and every other V gives an entry without PRESENT,
\* which is 0 when an upper level stopped the walk or the level-1 slot is empty.
C13_SameIndexBitsResolve ==
    /\ C13_WalksFourLevels
    /\ (Looked /\ disk \in OnlyV0Images) =>
          IF PathOf(log.virtual) = PathOf(V0)
          THEN BlockId(log.ret) = 42 /\ Has(log.ret, BLOCK_MAP_PRESENT)
          ELSE ~Has(log.ret, BLOCK_MAP_PRESENT)

\* an address that differs from V0 in bits 63..48 and 11..0 only has been
\* looked up in an image where only V0 is PRESENT
C13_Witness ==
    /\ Looked
    /\ disk \in OnlyV0Images
    /\ log.virtual = <<2^16 - 1, 57005, 48879, 1>>
    /\ BlockId(log.ret) = 42

(***************************************************************************)
(* mezzano_loader_load, stage by stage.  A virtual page is                 *)
(* <<bits 63..48, bits 47..39, bits 38..30, bits 29..21, bits 20..12>> of  *)
(* its address; a paging context is the set of its mapped pages.           *)
(***************************************************************************)
\* bits 63..48 of mezzano_physical_map_address and mezzano_physical_info_address
KernelHalf == 2^16 - 1
\* bits 47..39 of mezzano_physical_map_address = 0xFFFF800000000000
PhysicalMapIndex == 256
\* bits 47..39 of mezzano_physical_info_address = 0xFFFF808000000000
PhysicalInfoIndex == 257
\* sizeof(mezzano_page_info_t)
PageInfoSize == 32
\* PAGE_CHUNK_SIZE / PAGE_SIZE
PageChunkPages == (8 * 1024 * 1024) \div PAGE_SIZE

\* the page at base + n * PAGE_SIZE, base = index << 39 in the kernel half
VPage(index, n) ==
    <<KernelHalf, index + n \div 2^27, (n \div 2^18) % 512, (n \div 512) % 512, n % 512>>

\* mezzano_physical_map_address + frame * PAGE_SIZE
PhysMapPage(frame) == VPage(PhysicalMapIndex, frame)
\* page n of the page-info array
InfoPage(n) == VPage(PhysicalInfoIndex, n)
\* the page of mezzano_physical_info_address + (page / PAGE_SIZE) * sizeof(mezzano_page_info_t)
InfoPageOf(frame) == InfoPage((frame * PageInfoSize) \div PAGE_SIZE)

\* is_canonical_addr (arm64): bits 63..48 all clear or all set
is_canonical_addr(page) == page[1] = 0 \/ page[1] = KernelHalf

\* the translation tables a context needs for its pages, below the two roots:
\* one per bits 47..39, per bits 47..30 and per bits 47..21 in use (get_ttl2,
\* map_small)
TableNodes(mmu) ==
    UNION { { <<p[1], p[2]>>, <<p[1], p[2], p[3]>>, <<p[1], p[2], p[3], p[4]>> } :
            p \in mmu }

\* kboot's physical memory manager.  memory_alloc without MEMORY_ALLOC_HIGH
\* takes the lowest fit at or above min_addr = 0x100000; allocate_structure
\* asks for MEMORY_ALLOC_HIGH and takes the highest free page.
FreeFrames(rt) == {f \in DOMAIN rt : rt[f] = "FREE"}

LowFits(rt, pages) ==
    {s \in DOMAIN rt :
        /\ s >= OneMiBFrame
        /\ \A t \in s..(s + pages - 1) : t \in DOMAIN rt /\ rt[t] = "FREE"}

LowFit(rt, pages) == CHOOSE s \in LowFits(rt, pages) : \A t \in LowFits(rt, pages) : s <= t

HighFrames(rt, n) ==
    {f \in FreeFrames(rt) : Cardinality({g \in FreeFrames(rt) : g > f}) < n}

Mark(rt, frames, type) == [f \in DOMAIN rt |-> IF f \in frames THEN type ELSE rt[f]]

\* mmu_map of pages into a context whose tables are of the given type (the
\* tables that are new are allocated): the memory ranges afterwards
MapTables(rt, mmu, pages, type) ==
    Mark(rt, HighFrames(rt, Cardinality(TableNodes(mmu \cup pages) \ TableNodes(mmu))),
         type)

TablesFit(rt, mmu, pages) ==
    Cardinality(FreeFrames(rt)) >= Cardinality(TableNodes(mmu \cup pages) \ TableNodes(mmu))

\* mmu_map: the pages are mapped when the range is canonical, else nothing is
mmu_map(mmu, pages) ==
    IF \A p \in pages : is_canonical_addr(p) THEN mmu \cup pages ELSE mmu

\* the frames of a memory-map entry (both ends below 512 GiB)
FramesOf(entry) == entry.start.pg..(entry.end.pg - 1)

\* what the platform gives: the ranges mezzano_generate_memory_map reports,
\* the frames kboot's memory manager owns and, of these, the loader's own
Platforms ==
    { [ranges |-> << <<P(200), P(256)>>, <<P(256), P(300)>> >>,
       ram |-> 256..299, image |-> {257, 258}],
      [ranges |-> << <<P(256), P(290)>>, <<P(380), P(400)>> >>,
       ram |-> (256..289) \cup (380..399), image |-> {380, 381}],
      [ranges |-> << <<P(256), P(384)>> >>,
       ram |-> 256..305, image |-> {300, 301}] }

\* images: wired, unwired and transient pages; a zero-fill page without a
\* block; two wired pages and a zero-fill page without a block; a wired page
\* at 0xDEADBEEF0000; wired pages below an upper entry that names its block
\* without PRESENT
LoadImages ==
    { [bml4 |-> 1,
       blocks |-> (1 :> (0 :> E(2, BLOCK_MAP_PRESENT)))
              @@ (2 :> (0 :> E(3, BLOCK_MAP_PRESENT)))
              @@ (3 :> (1 :> E(4, BLOCK_MAP_PRESENT)))
              @@ (4 :> ((0 :> E(42, BLOCK_MAP_PRESENT + BLOCK_MAP_WIRED))
                     @@ (1 :> E(43, BLOCK_MAP_PRESENT + BLOCK_MAP_WRITABLE))
                     @@ (2 :> E(44, BLOCK_MAP_PRESENT + BLOCK_MAP_WIRED
                                      + BLOCK_MAP_TRANSIENT))
                     @@ (3 :> E(45, BLOCK_MAP_WIRED))))],
      [bml4 |-> 1,
       blocks |-> (1 :> (0 :> E(2, BLOCK_MAP_PRESENT)))
              @@ (2 :> (0 :> E(3, BLOCK_MAP_PRESENT)))
              @@ (3 :> (1 :> E(4, BLOCK_MAP_PRESENT)))
              @@ (4 :> (0 :> E(0, BLOCK_MAP_PRESENT + BLOCK_MAP_WIRED
                                     + BLOCK_MAP_ZERO_FILL)))],
      [bml4 |-> 1,
       blocks |-> (1 :> (0 :> E(2, BLOCK_MAP_PRESENT)))
              @@ (2 :> (0 :> E(3, BLOCK_MAP_PRESENT)))
              @@ (3 :> (1 :> E(4, BLOCK_MAP_PRESENT)))
              @@ (4 :> ((0 :> E(42, BLOCK_MAP_PRESENT + BLOCK_MAP_WIRED))
                     @@ (1 :> E(0, BLOCK_MAP_PRESENT + BLOCK_MAP_WIRED
                                      + BLOCK_MAP_ZERO_FILL))
                     @@ (2 :> E(43, BLOCK_MAP_PRESENT + BLOCK_MAP_WIRED
                                      + BLOCK_MAP_WRITABLE))))],
      [bml4 |-> 7,
       blocks |-> (7 :> (V0i4 :> E(9, BLOCK_MAP_PRESENT)))
              @@ (9 :> (V0i3 :> E(8, BLOCK_MAP_PRESENT)))
              @@ (8 :> (V0i2 :> E(6, BLOCK_MAP_PRESENT)))
              @@ (6 :> (V0i1 :> E(42, BLOCK_MAP_PRESENT + BLOCK_MAP_WRITABLE
                                          + BLOCK_MAP_WIRED)))],
      [bml4 |-> 1,
       blocks |-> (1 :> (0 :> E(2, BLOCK_MAP_PRESENT)))
              @@ (2 :> ((0 :> E(3, 0)) @@ (1 :> E(0, BLOCK_MAP_PRESENT))))
              @@ (3 :> (1 :> E(4, BLOCK_MAP_PRESENT)))
              @@ (4 :> ((0 :> E(42, BLOCK_MAP_PRESENT + BLOCK_MAP_WIRED))
                     @@ (1 :> E(43, BLOCK_MAP_PRESENT + BLOCK_MAP_ZERO_FILL
                                      + BLOCK_MAP_WIRED + BLOCK_MAP_TRACK_DIRTY
                                      + BLOCK_MAP_WRITABLE))))] }

\* the platforms the loader is built for: each has its own
\* mezzano_platform_load and mezzano_platform_finalize
Firmwares == {"bios", "efi", "fdt"}

\* mezzano_loader_load is entered: config_cmd_mezzano has read the header and
\* the options, kboot's memory manager holds the platform's RAM, its own image
\* in it as MEMORY_TYPE_INTERNAL
InitLoad ==
    /\ memory_map = EmptyMap
    /\ n_memory_map_entries = 0
    /\ buddy_bin_32 = NoBins32
    /\ buddy_bin_64 = NoBins64
    /\ page_info = <<>>
    /\ nil \in NilValues
    /\ released = {}
    /\ log = NoLog
    /\ n_calls = 0
    /\ cfg = IdleCfg
    /\ fx = IdleFx
    /\ pc = "start"
    /\ stages = <<>>
    /\ kernel_mmu = {}
    /\ transition_mmu = {}
    /\ \E fs \in BOOLEAN, pf \in Platforms, fw \in Firmwares :
          /\ loader = [IdleLoader EXCEPT !.freestanding = fs, !.platform = pf,
                                         !.firmware = fw]
          /\ range_type = [f \in pf.ram |-> IF f \in pf.image THEN "INTERNAL" ELSE "FREE"]
    /\ disk \in LoadImages
    /\ block_map = <<>>
    /\ chunk = NoChunk
    /\ allocs = <<>>
    /\ loaded = <<>>
    /\ block_cache = <<>>
    /\ device_reads = <<>>
    /\ efi_system_table = "0"

mapVars == <<memory_map, n_memory_map_entries>>
buddyVars == <<buddy_bin_32, buddy_bin_64, released>>
otherVars == <<nil, log, n_calls, cfg, fx, disk, block_cache>>
quietVars == <<otherVars, device_reads>>
bootVars == <<quietVars, efi_system_table>>

Alloc(type, start, pages, stage) ==
    [type |-> type, start |-> start, pages |-> pages, stage |-> stage]

\* lines 524-554: the two paging contexts (two roots each) and the boot
\* information page
load_start ==
    /\ pc = "start"
    /\ Cardinality(FreeFrames(range_type)) >= 5
    /\ LET rt1 == Mark(range_type, HighFrames(range_type, 2), "PAGETABLES")
           rt2 == Mark(rt1, HighFrames(rt1, 2), "INTERNAL")
       IN /\ LowFits(rt2, 1) # {}
          /\ range_type' = Mark(rt2, {LowFit(rt2, 1)}, "ALLOCATED")
          /\ allocs' = Append(allocs, Alloc("ALLOCATED", LowFit(rt2, 1), 1, "boot_info"))
    /\ pc' = "generate_memory_map"
    /\ UNCHANGED <<mapVars, buddyVars, bootVars, page_info, stages, kernel_mmu,
                   transition_mmu, loader, block_map, chunk, loaded>>

\* mezzano_generate_memory_map: mezzano_add_physical_memory_range for the
\* ranges rs[1..i], from an empty map and the context mmu
RECURSIVE GenerateMap(_, _, _)
GenerateMap(rs, i, mmu) ==
    IF i = 0 THEN [map |-> EmptyMap, n |-> 0, mmu |-> mmu]
    ELSE LET b == GenerateMap(rs, i - 1, mmu)
             c == ClipRange(rs[i][1], rs[i][2])
         IN IF ~c.keep THEN b
            ELSE LET r == mezzano_insert_into_memory_map(b.map, b.n, c.start, c.end)
                 IN [map |-> r.map, n |-> r.n,
                     mmu |-> mmu_map(b.mmu, {PhysMapPage(f) : f \in FramesOf(c)})]

mezzano_generate_memory_map ==
    /\ pc = "generate_memory_map"
    /\ LET g == GenerateMap(loader.platform.ranges, Len(loader.platform.ranges),
                            kernel_mmu)
       IN /\ TablesFit(range_type, kernel_mmu, g.mmu)
          /\ memory_map' = g.map
          /\ n_memory_map_entries' = g.n
          /\ kernel_mmu' = g.mmu
          /\ range_type' = MapTables(range_type, kernel_mmu, g.mmu, "PAGETABLES")
    /\ pc' = "finalize_memory_map"
    /\ stages' = Append(stages, "memory_map")
    /\ UNCHANGED <<buddyVars, bootVars, page_info, transition_mmu, loader,
                   block_map, chunk, allocs, loaded>>

\* the pages [info_start, info_end) of one memory-map entry, as page numbers
\* of the page-info array: round_down and round_up of
\* mezzano_physical_info_address + (frame) * sizeof(mezzano_page_info_t)
InfoWindow_exact(entry) ==
    ((entry.start.pg * PageInfoSize + PAGE_SIZE - 1) \div PAGE_SIZE)
        ..((entry.end.pg * PageInfoSize) \div PAGE_SIZE - 1)

InfoWindow_extra(entry) ==
    ((entry.start.pg * PageInfoSize) \div PAGE_SIZE)
        ..((entry.end.pg * PageInfoSize + PAGE_SIZE - 1) \div PAGE_SIZE)

InfoWindow(entry) ==
    ((entry.start.pg * PageInfoSize) \div PAGE_SIZE)
        ..((entry.end.pg * PageInfoSize + PAGE_SIZE - 1) \div PAGE_SIZE - 1)

\* the loop of mezzano_finalize_memory_map over entries 1..i
RECURSIVE FinalizeMap(_, _, _, _, _)
FinalizeMap(mm, i, mmu, rt, al) ==
    IF i = 0 THEN [mmu |-> mmu, rt |-> rt, allocs |-> al, ok |-> TRUE]
    ELSE LET b == FinalizeMap(mm, i - 1, mmu, rt, al)
             w == InfoWindow(mm[i])
             pages == {InfoPage(q) : q \in w}
         IN IF ~b.ok \/ LowFits(b.rt, Cardinality(w)) = {} THEN [b EXCEPT !.ok = FALSE]
            ELSE LET s == LowFit(b.rt, Cardinality(w))
                     rt1 == Mark(b.rt, s..(s + Cardinality(w) - 1), "ALLOCATED")
                 IN [mmu |-> mmu_map(b.mmu, pages),
                     rt |-> MapTables(rt1, b.mmu, pages, "PAGETABLES"),
                     allocs |-> Append(b.allocs,
                                       Alloc("ALLOCATED", s, Cardinality(w), "page_info")),
                     ok |-> TablesFit(rt1, b.mmu, pages)]

\* the frame's page-info entry lies in a mapped page
InfoMapped(mmu, frame) == InfoPageOf(frame) \in mmu

\* the frames whose page-info entry lies in a mapped page: PAGE_SIZE /
\* sizeof(mezzano_page_info_t) frames for each mapped page of the array
InfoFrames(mmu) ==
    UNION { LET q == p[3] * 2^18 + p[4] * 512 + p[5]
            IN (q * (PAGE_SIZE \div PageInfoSize))
                   ..((q + 1) * (PAGE_SIZE \div PageInfoSize) - 1) :
            p \in {m \in mmu : m[1] = KernelHalf /\ m[2] = PhysicalInfoIndex} }

mezzano_finalize_memory_map ==
    /\ pc = "finalize_memory_map"
    /\ LET r == FinalizeMap(memory_map, n_memory_map_entries, kernel_mmu, range_type,
                            allocs)
       IN /\ r.ok
          /\ kernel_mmu' = r.mmu
          /\ range_type' = r.rt
          /\ allocs' = r.allocs
          \* memset(virt, 0, info_end - info_start)
          /\ page_info' = [f \in InfoFrames(r.mmu) |-> ZeroInfo]
    /\ pc' = "read_block_map"
    /\ stages' = Append(stages, "page_info")
    /\ UNCHANGED <<mapVars, buddyVars, bootVars, transition_mmu, loader, block_map,
                   chunk, loaded>>

\* enum page_type
page_type_wired == 2
page_type_active == 4

set_page_info_extra(info, page, value) == [info EXCEPT ![page].extra = value]

RECURSIVE SortedSeq(_)
SortedSeq(S) ==
    IF S = {} THEN <<>>
    ELSE LET m == CHOOSE x \in S : \A y \in S : x <= y
         IN <<m>> \o SortedSeq(S \ {m})

\* the level-1 loop of read_block_map_level: the entry adds to page_count
CountsInPass1(fs, entry) ==
    /\ BlockId(entry) # 0
    /\ Has(entry, BLOCK_MAP_PRESENT)
    /\ (fs \/ Has(entry, BLOCK_MAP_WIRED))

ReadFails_never(st) == FALSE

\* if(st) { boot_error("Could not read block ...") }
ReadFails(st) == st # 0

\* read_block_map_level with every read succeeding: the level-1 entries under
\* the block, in address order (entries that are zero left out), the number of
\* blocks copied, what the walk adds to loader->page_count and the reads in
\* the order they are issued, each with what it adds to page_count.  Every
\* block an entry names is in the image.
RECURSIVE read_block_map_level(_, _, _, _, _)
RECURSIVE WalkBlock(_, _, _, _, _, _)
read_block_map_level(d, fs, level_disk_block, level, prefix) ==
    LET disk_block == d.blocks[level_disk_block]
        idxs == SortedSeq(DOMAIN disk_block)
    IN IF level = 1
       THEN [entries |-> [n \in 1..Len(idxs) |->
                             [virtual |-> prefix \o <<idxs[n]>>,
                              info |-> disk_block[idxs[n]]]],
             blocks |-> 1,
             page_count |-> Cardinality({i \in DOMAIN disk_block :
                                           CountsInPass1(fs, disk_block[i])}),
             reads |-> <<[block |-> level_disk_block,
                          counted |-> Cardinality({i \in DOMAIN disk_block :
                                                    CountsInPass1(fs, disk_block[i])})]>>]
       ELSE LET w == WalkBlock(d, fs, disk_block, idxs, level, prefix)
            IN [w EXCEPT !.reads = <<[block |-> level_disk_block, counted |-> 0]>>
                                       \o w.reads]

WalkBlock(d, fs, disk_block, idxs, level, prefix) ==
    IF idxs = <<>> THEN [entries |-> <<>>, blocks |-> 1, page_count |-> 0,
                         reads |-> <<>>]
    ELSE LET rest == WalkBlock(d, fs, disk_block, Tail(idxs), level, prefix)
             entry == disk_block[Head(idxs)]
         IN IF BlockId(entry) = 0 THEN rest
            ELSE LET sub == read_block_map_level(d, fs, BlockId(entry), level - 1,
                                                 prefix \o <<Head(idxs)>>)
                 IN [entries |-> sub.entries \o rest.entries,
                     blocks |-> sub.blocks + rest.blocks,
                     page_count |-> sub.page_count + rest.page_count,
                     reads |-> sub.reads \o rest.reads]

\* n calls of memory_alloc(0x1000, ...) in a row
RECURSIVE AllocPages(_, _, _, _)
AllocPages(rt, al, n, stage) ==
    IF n = 0 THEN [rt |-> rt, allocs |-> al, ok |-> TRUE]
    ELSE IF LowFits(rt, 1) = {} THEN [rt |-> rt, allocs |-> al, ok |-> FALSE]
    ELSE AllocPages(Mark(rt, {LowFit(rt, 1)}, "ALLOCATED"),
                    Append(al, Alloc("ALLOCATED", LowFit(rt, 1), 1, stage)),
                    n - 1, stage)

RECURSIVE SumCounted(_, _)
SumCounted(reads, n) ==
    IF n = 0 THEN 0 ELSE SumCounted(reads, n - 1) + reads[n].counted

\* mezzano_read_block_map.  failing is the place, in the order of the walk, of
\* the read that returns a non-zero status, 0 when every read succeeds:
\* the walk then stops in boot_error, with one page allocated for each read
\* issued and page_count as the level-1 blocks read so far left it.
mezzano_read_block_map ==
    /\ pc = "read_block_map"
    /\ LET r == read_block_map_level(disk, loader.freestanding, disk.bml4, 4, <<>>)
       IN \E failing \in 0..Len(r.reads) :
          LET issued == IF failing = 0 THEN Len(r.reads) ELSE failing
              st == IF failing = 0 THEN 0 ELSE 1
              a == AllocPages(range_type, allocs, issued, "block_map")
          IN /\ a.ok
             /\ range_type' = a.rt
             /\ allocs' = a.allocs
             /\ device_reads' =
                   device_reads \o [n \in 1..issued |->
                                      [block |-> r.reads[n].block,
                                       st |-> IF n = failing THEN 1 ELSE 0]]
             /\ IF ReadFails(st)
                THEN /\ loader' = [loader EXCEPT
                                      !.page_count = loader.page_count
                                          + SumCounted(r.reads, failing - 1)]
                     /\ pc' = "boot_error"
                     /\ UNCHANGED <<block_map, stages>>
                ELSE /\ block_map' = r.entries
                     /\ loader' = [loader EXCEPT
                                      !.page_count = loader.page_count + r.page_count,
                                      !.cursor = 0]
                     /\ pc' = "read_wired_pages"
                     /\ stages' = Append(stages, "block_map")
    /\ chunk' = NoChunk
    /\ UNCHANGED <<mapVars, buddyVars, otherVars, efi_system_table, page_info,
                   kernel_mmu,
                   transition_mmu, loaded>>

\* the page of the address i << 39 | j << 30 | k << 21 | l << 12
WiredPage(virtual) == <<0>> \o virtual

\* mezzano_read_wired_pages passes the entry to load_page
Offered(fs, info) == fs \/ Has(info, BLOCK_MAP_WIRED)
\* load_page goes past its first test
Loads(info) == Has(info, BLOCK_MAP_PRESENT) /\ ~Has(info, BLOCK_MAP_TRANSIENT)

\* min(PAGE_CHUNK_SIZE, (page_count - n_pages_loaded) * PAGE_SIZE) in pages;
\* the difference is taken in uint64_t
ChunkPages(ld) ==
    IF ld.page_count < ld.n_pages_loaded THEN PageChunkPages
    ELSE IF ld.page_count - ld.n_pages_loaded < PageChunkPages
         THEN ld.page_count - ld.n_pages_loaded
         ELSE PageChunkPages

page_type_of_always_wired(fs, info) == page_type_wired

\* the type load_page gives the frame
page_type_of(fs, info) ==
    IF Has(info, BLOCK_MAP_WIRED) THEN page_type_wired ELSE page_type_active

\* the body of load_page from the slice on: c is the chunk to slice, rt the
\* memory ranges, reserved whether the chunk's memory_alloc reserved frames.
\* chunk.remaining counts pages; a negative value r stands for the value
\* 2^64 + r * PAGE_SIZE that phys_size_t holds once the subtraction has wrapped
LoadSlice(e, c, rt, reserved, st) ==
    LET phys_addr == c.phys_addr
        page == WiredPage(e.virtual)
        mmu1 == mmu_map(kernel_mmu, {page})
        i1 == IF phys_addr \in DOMAIN page_info
              THEN set_page_info_extra(page_info, phys_addr, Fix(BlockId(e.info)))
              ELSE page_info
        i2 == IF phys_addr \in DOMAIN i1
              THEN set_page_info_type(i1, phys_addr,
                                      page_type_of(loader.freestanding, e.info))
              ELSE i1
    IN /\ TablesFit(rt, kernel_mmu, {page})
       /\ chunk' = [phys_addr |-> c.phys_addr + 1, remaining |-> c.remaining - 1]
       /\ kernel_mmu' = mmu1
       /\ range_type' = MapTables(rt, kernel_mmu, {page}, "PAGETABLES")
       /\ page_info' = i2
       /\ IF Has(e.info, BLOCK_MAP_ZERO_FILL)
          THEN st = 0 /\ UNCHANGED device_reads
          ELSE device_reads' = Append(device_reads,
                                      [block |-> BlockId(e.info), st |-> st])
       /\ IF ~Has(e.info, BLOCK_MAP_ZERO_FILL) /\ ReadFails(st)
          THEN /\ pc' = "boot_error"
               /\ UNCHANGED <<loaded, loader>>
          ELSE /\ loaded' = Append(loaded,
                                   [virtual |-> e.virtual, phys |-> phys_addr,
                                    info |-> e.info,
                                    reserved |-> reserved /\ rt[phys_addr] = "ALLOCATED",
                                    fill |-> IF Has(e.info, BLOCK_MAP_ZERO_FILL)
                                             THEN "zero" ELSE "block"])
               /\ loader' = [loader EXCEPT
                                !.cursor = loader.cursor + 1,
                                !.n_pages_loaded = loader.n_pages_loaded + 1]
               /\ pc' = pc

\* one turn of the innermost loop of mezzano_read_wired_pages, for the next
\* non-zero level-1 entry, load_page included; st is the status of the read
\* load_page issues for a page that is not zero-filled.  memory_alloc is outside the
\* sources kept here: asked for 0 bytes it either stops the run or returns an
\* address at which nothing is reserved (zero_alloc chooses).
read_wired_pages_step(zero_alloc, st) ==
    /\ pc = "read_wired_pages"
    /\ loader.cursor < Len(block_map)
    /\ LET e == block_map[loader.cursor + 1] IN
       IF ~Offered(loader.freestanding, e.info) \/ ~Loads(e.info)
       THEN /\ zero_alloc = "none"
            /\ st = 0
            /\ loader' = [loader EXCEPT !.cursor = loader.cursor + 1]
            /\ UNCHANGED <<pc, chunk, kernel_mmu, range_type, page_info, loaded, allocs,
                           device_reads>>
       ELSE IF chunk.remaining # 0
       THEN /\ zero_alloc = "none"
            /\ LoadSlice(e, chunk, range_type, TRUE, st)
            /\ UNCHANGED allocs
       ELSE IF ChunkPages(loader) > 0
       THEN /\ zero_alloc = "none"
            /\ LowFits(range_type, ChunkPages(loader)) # {}
            /\ LET s == LowFit(range_type, ChunkPages(loader))
                   rt1 == Mark(range_type, s..(s + ChunkPages(loader) - 1), "ALLOCATED")
               IN /\ LoadSlice(e, [phys_addr |-> s, remaining |-> ChunkPages(loader)],
                               rt1, TRUE, st)
                  /\ allocs' = Append(allocs, Alloc("ALLOCATED", s, ChunkPages(loader),
                                                    "wired_pages"))
       ELSE IF zero_alloc = "stops"
       THEN /\ st = 0
            /\ pc' = "boot_error"
            /\ UNCHANGED <<loader, chunk, kernel_mmu, range_type, page_info, loaded,
                           allocs, device_reads>>
       ELSE /\ zero_alloc = "empty"
            /\ LowFits(range_type, 1) # {}
            /\ LoadSlice(e, [phys_addr |-> LowFit(range_type, 1), remaining |-> 0],
                         range_type, FALSE, st)
            /\ allocs' = Append(allocs, Alloc("ALLOCATED", LowFit(range_type, 1), 0,
                                              "wired_pages"))
    /\ UNCHANGED <<mapVars, buddyVars, otherVars, efi_system_table, stages,
                   transition_mmu, block_map>>

\* the loops of mezzano_read_wired_pages are over
read_wired_pages_end ==
    /\ pc = "read_wired_pages"
    /\ loader.cursor = Len(block_map)
    /\ pc' = "set_video_mode"
    /\ stages' = Append(stages, "wired_pages")
    /\ UNCHANGED <<mapVars, buddyVars, bootVars, page_info, kernel_mmu,
                   transition_mmu, loader, block_map, chunk, allocs, loaded,
                   range_type>>

\* lines 562-568: mezzano_platform_load, the uuid, loader_preboot and
\* mezzano_set_video_mode fill boot-information fields
mezzano_set_video_mode ==
    /\ pc = "set_video_mode"
    /\ pc' = "buddy_bins"
    /\ stages' = Append(stages, "video_mode")
    /\ UNCHANGED <<mapVars, buddyVars, bootVars, page_info, kernel_mmu,
                   transition_mmu, loader, block_map, chunk, allocs, loaded,
                   range_type>>

\* the order of the last stages as the data flow of the specification has
\* it: the free loop before the transition maps
StageAfter_finalise_first(stage) ==
    CASE stage = "buddy_bins" -> "memory_finalize"
      [] stage = "free_loop" -> "transition_maps"
      [] stage = "transition_maps" -> "enter"

\* the order of the last stages of mezzano_loader_load: lines 570-578, then
\* 580-587, then 589-611, then 613-630
StageAfter(stage) ==
    CASE stage = "buddy_bins" -> "transition_maps"
      [] stage = "transition_maps" -> "memory_finalize"
      [] stage = "free_loop" -> "enter"

\* lines 570-578: "Initialize buddy bins."
init_buddy_bins ==
    /\ pc = "buddy_bins"
    /\ buddy_bin_32' = [k \in 0..(mezzano_n_buddy_bins_32_bit - 1) |->
                           [first_page |-> nil, count |-> Fix(0)]]
    /\ buddy_bin_64' = [k \in 0..(mezzano_n_buddy_bins_64_bit - 1) |->
                           [first_page |-> nil, count |-> Fix(0)]]
    /\ pc' = StageAfter(pc)
    /\ stages' = Append(stages, "buddy_heads")
    /\ UNCHANGED <<mapVars, released, bootVars, page_info, kernel_mmu,
                   transition_mmu, loader, block_map, chunk, allocs, loaded,
                   range_type>>

\* the identity page of a frame
IdentityPage(frame) ==
    <<0, frame \div 2^27, (frame \div 2^18) % 512, (frame \div 512) % 512, frame % 512>>

\* lines 580-587: the loader's image, identity mapped and in the physical map
\* of the transition context, in the physical map of the kernel context
build_transition_maps ==
    /\ pc = "transition_maps"
    /\ LET image == loader.platform.image
           t1 == mmu_map(transition_mmu, {IdentityPage(f) : f \in image})
           t2 == mmu_map(t1, {PhysMapPage(f) : f \in image})
           k1 == mmu_map(kernel_mmu, {PhysMapPage(f) : f \in image})
           rt1 == MapTables(range_type, transition_mmu, t2, "INTERNAL")
       IN /\ TablesFit(range_type, transition_mmu, t2)
          /\ TablesFit(rt1, kernel_mmu, k1)
          /\ transition_mmu' = t2
          /\ kernel_mmu' = k1
          /\ range_type' = MapTables(rt1, kernel_mmu, k1, "PAGETABLES")
    /\ pc' = StageAfter(pc)
    /\ stages' = Append(stages, "transition_maps")
    /\ UNCHANGED <<mapVars, buddyVars, bootVars, page_info, loader, block_map,
                   chunk, allocs, loaded>>

\* line 591: memory_finalize(&kboot_memory_map), "Reclaim all memory used
\* internally"
memory_finalize ==
    /\ pc = "memory_finalize"
    /\ range_type' = [f \in DOMAIN range_type |->
                         IF range_type[f] = "INTERNAL" THEN "FREE" ELSE range_type[f]]
    /\ pc' = "free_loop"
    /\ UNCHANGED <<mapVars, buddyVars, bootVars, page_info, stages, kernel_mmu,
                   transition_mmu, loader, block_map, chunk, allocs, loaded>>

\* the frames list_foreach(&kboot_memory_map, iter) has still to act on
PendingFrames ==
    {f \in DOMAIN range_type \cap DOMAIN page_info :
        \/ range_type[f] = "FREE" /\ Above1MiB(f) /\ f \notin released
        \/ range_type[f] = "PAGETABLES"
              /\ page_info_type(page_info, f) # page_type_page_table}

\* lines 601-611, one frame at a time in the order of the list
free_loop_step ==
    /\ pc = "free_loop"
    /\ PendingFrames # {}
    /\ LET l == CHOOSE f \in PendingFrames : \A g \in PendingFrames : f <= g
       IN buddy_free_page(l) \/ mark_page_table(l)

free_loop_end ==
    /\ pc = "free_loop"
    /\ PendingFrames = {}
    /\ pc' = StageAfter(pc)
    /\ stages' = Append(stages, "finalise")
    /\ UNCHANGED <<mapVars, buddyVars, bootVars, page_info, kernel_mmu,
                   transition_mmu, loader, block_map, chunk, allocs, loaded,
                   range_type>>

mezzano_platform_finalize_every_firmware(firmware, table) == "efi_system_table"

\* mezzano_platform_finalize: on EFI, efi_exit_boot_services and
\* boot_info->efi_system_table = virt_to_phys((ptr_t)efi_system_table); empty
\* on the other platforms
mezzano_platform_finalize(firmware, table) ==
    IF firmware = "efi" THEN "efi_system_table" ELSE table

\* lines 613-630: the entry point is read, mezzano_platform_finalize,
\* mezzano_arch_enter
mezzano_arch_enter ==
    /\ pc = "enter"
    /\ efi_system_table' = mezzano_platform_finalize(loader.firmware, efi_system_table)
    /\ pc' = "entered"
    /\ stages' = Append(stages, "jump")
    /\ UNCHANGED <<mapVars, buddyVars, quietVars, page_info, kernel_mmu,
                   transition_mmu, loader, block_map, chunk, allocs, loaded,
                   range_type>>

NextLoad ==
    \/ load_start
    \/ mezzano_generate_memory_map
    \/ mezzano_finalize_memory_map
    \/ mezzano_read_block_map
    \/ \E zero_alloc \in {"none", "stops", "empty"}, st \in {0, 1} :
          read_wired_pages_step(zero_alloc, st)
    \/ read_wired_pages_end
    \/ mezzano_set_video_mode
    \/ init_buddy_bins
    \/ build_transition_maps
    \/ memory_finalize
    \/ free_loop_step
    \/ free_loop_end
    \/ mezzano_arch_enter

SpecLoad == InitLoad /\ [][NextLoad]_vars

(***************************************************************************)
(* Properties of mezzano_loader_load.                                      *)
(***************************************************************************)
\* mezzano_finalize_memory_map has returned and the kernel has not been
\* entered or is just being entered
Finalized == pc \notin {"start", "generate_memory_map", "finalize_memory_map"}
HandOff == pc = "entered"

\* the frames inside some memory-map range
Covered(f) ==
    \E i \in 1..n_memory_map_entries : f \in FramesOf(memory_map[i])
CoveredFrames == UNION {FramesOf(memory_map[i]) : i \in 1..n_memory_map_entries}

\* C11: from the return of mezzano_finalize_memory_map to the hand-off, the
\* page-info entry of every frame inside a memory-map range is mapped in the
\* kernel paging context.
C11_InfoOfCoveredFramesMapped ==
    Finalized => \A f \in CoveredFrames : InfoMapped(kernel_mmu, f)

\* hand-off with a two-range map whose second range ends inside the fourth
\* page of the page-info array
C11_Witness ==
    /\ HandOff
    /\ n_memory_map_entries = 2
    /\ 399 \in CoveredFrames
    /\ InfoPage(3) \in kernel_mmu

\* the frames whose page-info addresses are looked at: the first eight pages
\* of the array
ProbeFrames == 0..(8 * (PAGE_SIZE \div PageInfoSize) - 1)

\* C12 as stated: at hand-off the page-info address of every frame outside
\* all memory-map ranges is unmapped.
C12_InfoOfUncoveredFramesUnmapped ==
    HandOff => \A f \in ProbeFrames \ CoveredFrames : ~InfoMapped(kernel_mmu, f)

\* C12 (amended): at hand-off the page-info address of a frame outside all
\* memory-map ranges is unmapped unless it lies in the same page of the
\* page-info array as the entry of a frame inside a range; no page at or above
\* mezzano_physical_info_address is mapped but the pages holding the entries
\* of frames inside a range.
C12_InfoUnmappedOutsidePagesInUse ==
    HandOff =>
        /\ \A f \in ProbeFrames \ CoveredFrames :
              InfoMapped(kernel_mmu, f) <=>
                  \E g \in CoveredFrames : InfoPageOf(g) = InfoPageOf(f)
        /\ \A p \in kernel_mmu :
              (p[1] = KernelHalf /\ p[2] >= PhysicalInfoIndex) =>
                  \E g \in CoveredFrames : p = InfoPageOf(g)

\* hand-off with a map that ends at frame 300: the entry of frame 300 is
\* mapped, that of frame 384 is not
C12_Witness ==
    /\ HandOff
    /\ 299 \in CoveredFrames
    /\ 300 \notin CoveredFrames
    /\ InfoMapped(kernel_mmu, 300)
    /\ ~InfoMapped(kernel_mmu, 384)

\* read_block_map_level has walked the whole block map
BlockMapRead == \E n \in 1..Len(stages) : stages[n] = "block_map"

\* the places in device_reads of the reads that returned a non-zero status
FailedReads == {n \in 1..Len(device_reads) : device_reads[n].st # 0}

\* C14 as stated: after pass 1, loader.page_count is the number of level-1
\* entries that are PRESENT and WIRED (normal mode) or PRESENT (freestanding).
C14_PageCountIsSelectedEntries ==
    BlockMapRead =>
        loader.page_count =
            Cardinality({n \in 1..Len(block_map) :
                /\ Has(block_map[n].info, BLOCK_MAP_PRESENT)
                /\ (loader.freestanding \/ Has(block_map[n].info, BLOCK_MAP_WIRED))})

\* mezzano_read_wired_pages has returned
PassTwoDone == \E n \in 1..Len(stages) : stages[n] = "wired_pages"

\* the level-1 entries pass 2 is to load
Selected ==
    {n \in 1..Len(block_map) :
        /\ Has(block_map[n].info, BLOCK_MAP_PRESENT)
        /\ ~Has(block_map[n].info, BLOCK_MAP_TRANSIENT)
        /\ (loader.freestanding \/ Has(block_map[n].info, BLOCK_MAP_WIRED))}

\* C15 as stated: pass 2 loads exactly the level-1 entries that are PRESENT
\* and not TRANSIENT (WIRED too in normal mode): each gets a frame of its own
\* from an allocation, is mapped and is filled; the loader maps no other
\* virtual page, and the pass stops early only for a read that failed.
C15_LoadsExactlySelected ==
    /\ pc = "boot_error" => FailedReads # {}
    /\ PassTwoDone =>
          /\ {loaded[n].virtual : n \in 1..Len(loaded)}
                = {block_map[n].virtual : n \in Selected}
          /\ Len(loaded) = Cardinality(Selected)
          /\ \A n \in 1..Len(loaded) :
                /\ loaded[n].reserved
                /\ WiredPage(loaded[n].virtual) \in kernel_mmu
                /\ \A m \in 1..Len(loaded) : loaded[m].phys = loaded[n].phys => m = n
          /\ {p \in kernel_mmu : p[1] = 0}
                = {WiredPage(block_map[n].virtual) : n \in Selected}

\* pass 2 has run and the free loop has not started
LoadedTypesSettled ==
    pc \in {"read_wired_pages", "set_video_mode", "buddy_bins", "transition_maps",
            "memory_finalize"}

\* C16 as stated: every loaded frame has page-info type wired in normal mode
\* and active in freestanding mode.
C16_TypeFollowsMode ==
    LoadedTypesSettled =>
        \A n \in 1..Len(loaded) :
            loaded[n].phys \in DOMAIN page_info
            /\ page_info_type(page_info, loaded[n].phys)
                  = (IF loader.freestanding THEN page_type_active ELSE page_type_wired)

\* C16 (amended): every loaded frame has page-info type wired when its
\* block-map entry has WIRED and active otherwise; in normal mode that is
\* wired for every loaded frame, in freestanding mode wired or active by the
\* entry.
C16_TypeFollowsWiredFlag ==
    LoadedTypesSettled =>
        \A n \in 1..Len(loaded) :
            /\ loaded[n].phys \in DOMAIN page_info
            /\ page_info_type(page_info, loaded[n].phys)
                  = (IF Has(loaded[n].info, BLOCK_MAP_WIRED)
                     THEN page_type_wired ELSE page_type_active)
            /\ ~loader.freestanding =>
                  page_info_type(page_info, loaded[n].phys) = page_type_wired

\* freestanding mode has loaded a WIRED page as wired and another as active
C16_Witness ==
    /\ loader.freestanding
    /\ LoadedTypesSettled
    /\ \E n, m \in 1..Len(loaded) :
          /\ Has(loaded[n].info, BLOCK_MAP_WIRED)
          /\ page_info_type(page_info, loaded[n].phys) = page_type_wired
          /\ ~Has(loaded[m].info, BLOCK_MAP_WIRED)
          /\ page_info_type(page_info, loaded[m].phys) = page_type_active

IsPrefix(a, b) == Len(a) <= Len(b) /\ a = SubSeq(b, 1, Len(a))

\* C18 as stated: the stages complete in the order of the specified data
\* flow, the buddy bins being filled before the transition maps are built.
C18_StagesInSpecifiedOrder ==
    IsPrefix(stages, <<"memory_map", "page_info", "block_map", "wired_pages",
                       "video_mode", "buddy_heads", "finalise", "transition_maps",
                       "jump">>)

\* C18 (amended): the stages complete one after the other in this order:
\* memory map, page-info, block map walk, wired pages, video mode, buddy
\* heads, transition maps, firmware memory into the buddy bins, jump.
C18_StagesInCodeOrder ==
    /\ IsPrefix(stages, <<"memory_map", "page_info", "block_map", "wired_pages",
                          "video_mode", "buddy_heads", "transition_maps", "finalise",
                          "jump">>)
    /\ HandOff => Len(stages) = 9
    /\ released # {} => transition_mmu # {}

\* the kernel is entered after all nine stages, frames released
C18_Witness ==
    /\ HandOff
    /\ Len(stages) = 9
    /\ released # {}
    /\ transition_mmu # {}

\* images in which every level-1 entry names a block
EveryEntryHasBlock == \A n \in 1..Len(block_map) : BlockId(block_map[n].info) # 0

C14_HoldsWithBlocks == EveryEntryHasBlock => C14_PageCountIsSelectedEntries
C15_HoldsWithBlocks == EveryEntryHasBlock => C15_LoadsExactlySelected

(***************************************************************************)
(* Failure paths and the memory test of config_cmd_mezzano.                *)
(***************************************************************************)
Times(calls, name) == Cardinality({n \in 1..Len(calls) : calls[n] = name})

\* what a failed command holds on to: loader states, device names and file
\* handles acquired and not released
Held(calls) ==
    (Times(calls, "malloc") - Times(calls, "free(data)"))
        + (Times(calls, "strdup") - Times(calls, "free(device_name)"))
        + (Times(calls, "fs_open") - Times(calls, "fs_close"))

\* C19: a failed config_cmd_mezzano returns false with a configuration error
\* and has not registered a loader, created a paging context or allocated
\* pages; the loader state it allocated is freed and the file it opened closed.
C19_FailureReleasesAll ==
    (cfg.pc = "done" /\ ~cfg.out.ret) =>
        /\ cfg.out.error # ""
        /\ ~cfg.out.loader_set
        /\ Times(cfg.out.calls, "environ_set_loader") = 0
        /\ Times(cfg.out.calls, "mmu_context_create") = 0
        /\ Times(cfg.out.calls, "memory_alloc") = 0
        /\ Held(cfg.out.calls) = 0
        /\ Times(cfg.out.calls, "malloc") = 1 => cfg.out.data_freed
        /\ cfg.in.locate = "file" /\ cfg.in.args_ok => cfg.out.fs_closed

\* an image file was opened, its header read and its protocol refused: the
\* file is closed and the loader state freed
C19_Witness ==
    /\ cfg.pc = "done"
    /\ cfg.in.locate = "file"
    /\ cfg.out.error = "Unsupported protocol major"
    /\ ~cfg.out.ret
    /\ cfg.out.calls = <<"fs_open", "malloc", "strdup", "memory_snapshot",
                         "read header", "fs_close", "free(device_name)",
                         "free(data)">>

\* the command got as far as the memory test
MemoryTestReached ==
    /\ cfg.pc = "done"
    /\ cfg.in.args_ok
    /\ cfg.in.locate # "fail"
    /\ cfg.in.option = "none"

\* C20: without i-promise-i-have-enough-memory the command fails with a
\* configuration error whenever the snapshot's total is below 500 MiB (with
\* "Insufficient memory" once it gets to the test); with the option the total
\* is not looked at and the outcome is the same for every total.
C20_MemoryTestUnlessPromised ==
    cfg.pc = "done" =>
        /\ (~cfg.in.skip_memory_test /\ cfg.in.total_memory < MinTotalMemory) =>
              /\ ~cfg.out.ret
              /\ cfg.out.error # ""
              /\ MemoryTestReached => cfg.out.error = "Insufficient memory"
        /\ cfg.in.skip_memory_test =>
              /\ cfg.out.error # "Insufficient memory"
              /\ Times(cfg.out.calls, "memory_snapshot") = 0
              /\ \A t \in {0, MinTotalMemory - 1, MinTotalMemory} :
                    cfg.out = ConfigCmd([cfg.in EXCEPT !.total_memory = t])
        /\ cfg.out.error = "Insufficient memory" =>
              ~cfg.in.skip_memory_test /\ cfg.in.total_memory < MinTotalMemory

\* one byte short of 500 MiB: refused without the option
C20_Witness ==
    /\ MemoryTestReached
    /\ ~cfg.in.skip_memory_test
    /\ cfg.in.total_memory = MinTotalMemory - 1
    /\ cfg.out.error = "Insufficient memory"
    /\ ConfigCmd([cfg.in EXCEPT !.skip_memory_test = TRUE]).ret

(***************************************************************************)
(* mezzano_locate_image: the path of the 'mezzano' command against the     *)
(* device list.  A string is a sequence of characters.                     *)
(***************************************************************************)
MaxDevices == 3        \* devices on device_list

\* "\x00MezzanineImage\x00", the 16 bytes between the quotes
mezzano_magic == "MezzanineImage"

HexDigits == <<"0", "1", "2", "3", "4", "5", "6", "7", "8", "9",
               "a", "b", "c", "d", "e", "f">>

\* "%02x" of one byte
Hex2(b) == <<HexDigits[(b \div 16) + 1], HexDigits[(b % 16) + 1]>>

RECURSIVE HexOf(_)
HexOf(bytes) ==
    IF bytes = <<>> THEN <<>> ELSE Hex2(Head(bytes)) \o HexOf(Tail(bytes))

\* "%pU" of uint8_t uuid[16]: the bytes in order as 8-4-4-4-12 hexadecimal
\* digits, the layout of the format string of mezzano.c:661
FormatUuid(uuid) ==
    HexOf(SubSeq(uuid, 1, 4)) \o <<"-">> \o HexOf(SubSeq(uuid, 5, 6)) \o <<"-">>
        \o HexOf(SubSeq(uuid, 7, 8)) \o <<"-">> \o HexOf(SubSeq(uuid, 9, 10))
        \o <<"-">> \o HexOf(SubSeq(uuid, 11, 16))

UpperCase == <<"A", "B", "C", "D", "E", "F", "G", "H", "I", "J", "K", "L", "M",
               "N", "O", "P", "Q", "R", "S", "T", "U", "V", "W", "X", "Y", "Z">>
LowerCase == <<"a", "b", "c", "d", "e", "f", "g", "h", "i", "j", "k", "l", "m",
               "n", "o", "p", "q", "r", "s", "t", "u", "v", "w", "x", "y", "z">>

tolower(c) ==
    IF \E n \in 1..Len(UpperCase) : UpperCase[n] = c
    THEN LowerCase[CHOOSE n \in 1..Len(UpperCase) : UpperCase[n] = c]
    ELSE c

RECURSIVE MapSeq(_, _)
MapSeq(s, i) == IF i > Len(s) THEN <<>> ELSE <<tolower(s[i])>> \o MapSeq(s, i + 1)

strcasecmp_exact(a, b) == a = b

\* strcasecmp(a, b) == 0
strcasecmp(a, b) == MapSeq(a, 1) = MapSeq(b, 1)

\* strncmp(path, "uuid:", 5) == 0
HasUuidPrefix(path) ==
    Len(path) >= 5 /\ SubSeq(path, 1, 5) = <<"u", "u", "i", "d", ":">>

DeviceMatches_any_magic(device, path_uuid) ==
    /\ device.read_st = 0
    /\ strcasecmp(FormatUuid(device.uuid), path_uuid)

\* the test of one device in the list_foreach of mezzano_locate_image:
\* device_read succeeds, the magic is right, the formatted uuid compares equal
DeviceMatches(device, path_uuid) ==
    /\ device.read_st = 0
    /\ device.magic = mezzano_magic
    /\ strcasecmp(FormatUuid(device.uuid), path_uuid)

\* list_foreach(&device_list, iter): the index of the device the loop returns
\* true at, from index i on; 0 when the loop runs to its end
RECURSIVE UuidScan(_, _, _)
UuidScan(devices, i, path_uuid) ==
    IF i > Len(devices) THEN 0
    ELSE IF DeviceMatches(devices[i], path_uuid) THEN i
    ELSE UuidScan(devices, i + 1, path_uuid)

\* device_lookup(path): the index of the device of that name, 0 for NULL
device_lookup(devices, path) ==
    IF \E i \in 1..Len(devices) : devices[i].name = path
    THEN CHOOSE i \in 1..Len(devices) : devices[i].name = path
    ELSE 0

\* mezzano_locate_image(path, &device, &fs_handle); fs_st is the status of
\* fs_open(path, ...)
LocateImage(path, devices, fs_st) ==
    LET found == IF HasUuidPrefix(path)
                 THEN UuidScan(devices, 1, SubSeq(path, 6, Len(path)))
                 ELSE 0
        device == device_lookup(devices, path)
    IN IF found # 0
       THEN [ret |-> TRUE, device |-> found, fs_handle |-> FALSE, by |-> "uuid",
             error |-> ""]
       ELSE IF device # 0
       THEN IF devices[device].type # "DEVICE_TYPE_DISK"
            THEN [ret |-> FALSE, device |-> 0, fs_handle |-> FALSE, by |-> "name",
                  error |-> "Invalid or unsupported device"]
            ELSE [ret |-> TRUE, device |-> device, fs_handle |-> FALSE,
                  by |-> "name", error |-> ""]
       ELSE IF fs_st # 0
       THEN [ret |-> FALSE, device |-> 0, fs_handle |-> FALSE, by |-> "file",
             error |-> "Unable to locate file or device"]
       ELSE [ret |-> TRUE, device |-> 0, fs_handle |-> TRUE, by |-> "file",
             error |-> ""]

\* two image uuids
UuidA == <<171, 205, 239, 1, 35, 69, 103, 137, 154, 188, 222, 240, 18, 52, 86, 120>>
UuidB == <<171, 205, 239, 1, 35, 69, 103, 137, 154, 188, 222, 240, 18, 52, 86, 121>>

Str_uuid == <<"u", "u", "i", "d", ":">>

RECURSIVE Upcase(_)
Upcase(s) ==
    IF s = <<>> THEN <<>>
    ELSE LET c == Head(s)
         IN (IF \E n \in 1..Len(LowerCase) : LowerCase[n] = c
             THEN <<UpperCase[CHOOSE n \in 1..Len(LowerCase) : LowerCase[n] = c]>>
             ELSE <<c>>) \o Upcase(Tail(s))

\* what a device's first sectors hold and how it reads: images A and B, image
\* A behind a failing read, the uuid of A without the magic, image A on a
\* device that is no disk, a disk without an image
DeviceKinds ==
    { [type |-> "DEVICE_TYPE_DISK", read_st |-> 0, magic |-> mezzano_magic, uuid |-> UuidA],
      [type |-> "DEVICE_TYPE_DISK", read_st |-> 0, magic |-> mezzano_magic, uuid |-> UuidB],
      [type |-> "DEVICE_TYPE_DISK", read_st |-> 1, magic |-> mezzano_magic, uuid |-> UuidA],
      [type |-> "DEVICE_TYPE_DISK", read_st |-> 0, magic |-> "other", uuid |-> UuidA],
      [type |-> "DEVICE_TYPE_NET", read_st |-> 0, magic |-> mezzano_magic, uuid |-> UuidA] }

\* device i of the list is named "hd<i>"
DeviceName(i) == <<"h", "d", HexDigits[i + 1]>>

DeviceLists ==
    UNION { { [i \in 1..n |-> [name |-> DeviceName(i), type |-> ks[i].type,
                               read_st |-> ks[i].read_st, magic |-> ks[i].magic,
                               uuid |-> ks[i].uuid]] :
              ks \in [1..n -> DeviceKinds] } : n \in 0..MaxDevices }

\* the uuid of A in lower case, in upper case, in mixed case, cut short and
\* without its dashes; the uuid of B; the prefix in upper case; two device
\* names; a file path
LocatePaths ==
    { Str_uuid \o FormatUuid(UuidA),
      Str_uuid \o Upcase(FormatUuid(UuidA)),
      Str_uuid \o Upcase(SubSeq(FormatUuid(UuidA), 1, 8))
               \o SubSeq(FormatUuid(UuidA), 9, 36),
      Str_uuid \o SubSeq(FormatUuid(UuidA), 1, 35),
      Str_uuid \o HexOf(UuidA),
      Str_uuid \o FormatUuid(UuidB),
      Upcase(Str_uuid) \o FormatUuid(UuidA),
      DeviceName(1), DeviceName(2),
      <<"/", "i", "m", "g">> }

InitLocate ==
    /\ memory_map = EmptyMap
    /\ n_memory_map_entries = 0
    /\ buddy_bin_32 = NoBins32
    /\ buddy_bin_64 = NoBins64
    /\ page_info = <<>>
    /\ nil = 0
    /\ released = {}
    /\ log = NoLog
    /\ n_calls = 0
    /\ \E path \in LocatePaths, devices \in DeviceLists :
          cfg = [pc |-> "locate", path |-> path, device_list |-> devices]
    /\ fx = IdleFx
    /\ LoadIdle
    /\ range_type = <<>>

mezzano_locate_image(fs_st) ==
    /\ cfg.pc = "locate"
    /\ cfg' = [pc |-> "located", path |-> cfg.path, device_list |-> cfg.device_list,
               fs_st |-> fs_st,
               out |-> LocateImage(cfg.path, cfg.device_list, fs_st)]
    /\ UNCHANGED <<memory_map, n_memory_map_entries, buddy_bin_32, buddy_bin_64,
                   page_info, nil, released, log, n_calls, fx, loadVars>>

NextLocate == \E fs_st \in {0, 1} : mezzano_locate_image(fs_st)

SpecLocate == InitLocate /\ [][NextLocate]_vars

Located == cfg.pc = "located"

\* the text after "uuid:" of the path, <<>> for a path of another form
PathUuid ==
    IF HasUuidPrefix(cfg.path) THEN SubSeq(cfg.path, 6, Len(cfg.path)) ELSE <<>>

\* device i can be read, carries the magic and has the uuid u up to the case
\* of the hexadecimal digits
Carries(i, u) ==
    /\ cfg.device_list[i].read_st = 0
    /\ cfg.device_list[i].magic = mezzano_magic
    /\ Upcase(FormatUuid(cfg.device_list[i].uuid)) = Upcase(u)

\* C21: for a path uuid:<u>, mezzano_locate_image selects the first device in
\* enumeration order that can be read, carries the Mezzano magic and whose
\* uuid string equals <u> without regard to case; the devices before it fail
\* one of the checks and are skipped; no file handle is opened.
C21_UuidSelectsFirstMatch ==
    (Located /\ HasUuidPrefix(cfg.path)) =>
        LET matching == {i \in 1..Len(cfg.device_list) : Carries(i, PathUuid)}
        IN IF matching = {} THEN cfg.out.by # "uuid"
           ELSE /\ cfg.out.ret
                /\ cfg.out.by = "uuid"
                /\ cfg.out.device \in matching
                /\ \A j \in matching : cfg.out.device <= j
                /\ ~cfg.out.fs_handle

\* two devices, the first with another uuid, the second matching a path given
\* in upper case: the second is selected
C21_Witness ==
    /\ Located
    /\ Len(cfg.device_list) = 2
    /\ cfg.path = Str_uuid \o Upcase(FormatUuid(UuidA))
    /\ cfg.device_list[1].uuid = UuidB
    /\ cfg.device_list[1].read_st = 0
    /\ cfg.device_list[1].magic = mezzano_magic
    /\ cfg.device_list[2].uuid = UuidA
    /\ Carries(2, PathUuid)
    /\ cfg.out.ret
    /\ cfg.out.device = 2

(***************************************************************************)
(* The block cache: calls of read_cached_block in a row.                   *)
(***************************************************************************)
MaxRequests == 5       \* read_cached_block calls per run
CacheFrames == 8       \* free frames the memory manager starts with

NoRequests == [outcome |-> "none", requests |-> <<>>]

InitCache ==
    /\ memory_map = EmptyMap
    /\ n_memory_map_entries = 0
    /\ buddy_bin_32 = NoBins32
    /\ buddy_bin_64 = NoBins64
    /\ page_info = <<>>
    /\ nil = 0
    /\ released = {}
    /\ log = NoRequests
    /\ n_calls = 0
    /\ cfg = IdleCfg
    /\ fx = IdleFx
    /\ pc = "load_pages"
    /\ stages = <<>>
    /\ kernel_mmu = {}
    /\ transition_mmu = {}
    /\ loader = IdleLoader
    /\ disk \in LookupImages
    /\ block_map = 0
    /\ chunk = NoChunk
    /\ allocs = <<>>
    /\ loaded = <<>>
    /\ range_type = [f \in OneMiBFrame..(OneMiBFrame + CacheFrames - 1) |-> "FREE"]
    /\ block_cache = <<>>
    /\ device_reads = <<>>
    /\ efi_system_table = "0"

\* one call read_cached_block(loader, block_id); st is the status of the
\* device_read or fs_read of a miss.  The value returned is e->data, the
\* block's 4 KiB.
read_cached_block_call(block_id, st) ==
    /\ pc = "load_pages"
    /\ n_calls < MaxRequests
    /\ n_calls' = n_calls + 1
    /\ block_cache' = CacheAfter(block_cache, block_id)
    /\ IF CacheHit(block_cache, block_id)
       THEN /\ st = 0
            /\ UNCHANGED <<device_reads, allocs, range_type, pc>>
       ELSE /\ LowFits(range_type, 1) # {}
            /\ range_type' = Mark(range_type, {LowFit(range_type, 1)}, "INTERNAL")
            /\ allocs' = Append(allocs, Alloc("INTERNAL", LowFit(range_type, 1), 1,
                                               "block_cache"))
            /\ device_reads' = Append(device_reads, [block |-> block_id, st |-> st])
            /\ pc' = IF st # 0 THEN "boot_error" ELSE pc
    /\ log' = [outcome |-> "read_cached_block",
               requests |-> Append(log.requests, block_id),
               hit |-> CacheHit(block_cache, block_id),
               data |-> read_cached_block(disk, block_id)]
    /\ UNCHANGED <<memory_map, n_memory_map_entries, buddy_bin_32, buddy_bin_64,
                   page_info, nil, released, cfg, fx, stages, kernel_mmu,
                   transition_mmu, loader, disk, block_map, chunk, loaded,
                   efi_system_table>>

NextCache ==
    \E block_id \in DOMAIN disk.blocks, st \in {0, 1} :
        read_cached_block_call(block_id, st)

SpecCache == InitCache /\ [][NextCache]_vars

\* the place of the last request of a block
LastRequest(requests, b) ==
    CHOOSE n \in 1..Len(requests) :
        requests[n] = b /\ \A m \in (n + 1)..Len(requests) : requests[m] # b

\* C22: after any sequence of read_cached_block calls the cache list holds
\* every block id requested so far exactly once, the more recently requested
\* before the less recently requested; nothing is removed, and every block is
\* read from the device at most once (on its first request).
C22_CacheIsMruOfRequests ==
    /\ {block_cache[n] : n \in 1..Len(block_cache)}
           = {log.requests[n] : n \in 1..Len(log.requests)}
    /\ \A m, n \in 1..Len(block_cache) :
           m < n => /\ block_cache[m] # block_cache[n]
                    /\ LastRequest(log.requests, block_cache[m])
                           > LastRequest(log.requests, block_cache[n])
    /\ \A m, n \in 1..Len(device_reads) :
           m # n => device_reads[m].block # device_reads[n].block
    /\ {device_reads[n].block : n \in 1..Len(device_reads)}
           = {log.requests[n] : n \in 1..Len(log.requests)}

\* three blocks requested, then the first again: a hit on the last entry of
\* the list moves it to the head, and there have been three reads
C22_Witness ==
    /\ Len(log.requests) = 4
    /\ log.requests[4] = log.requests[1]
    /\ log.hit
    /\ Len(block_cache) = 3
    /\ block_cache = <<log.requests[1], log.requests[3], log.requests[2]>>
    /\ Len(device_reads) = 3

(***************************************************************************)
(* Reads of the image during mezzano_loader_load.                          *)
(***************************************************************************)
\* C23: when a device or file read issued while the block map is materialised
\* or a page is loaded returns a non-zero status, the loader is in boot_error:
\* no further read is issued, no later stage completes and mezzano_arch_enter
\* is not reached.
C23_FailedReadHalts ==
    FailedReads # {} =>
        /\ pc = "boot_error"
        /\ FailedReads = {Len(device_reads)}
        /\ \A n \in 1..Len(stages) :
              stages[n] \in {"memory_map", "page_info", "block_map"}

\* a read of load_page fails after the block map was read and a first page
\* was loaded
C23_Witness ==
    /\ FailedReads # {}
    /\ pc = "boot_error"
    /\ block_map # <<>>
    /\ Len(loaded) >= 1
    /\ device_reads[Len(device_reads)].block = 43

\* a read of read_block_map_level fails below the top level
C23_WitnessBlockMap ==
    /\ FailedReads # {}
    /\ pc = "boot_error"
    /\ block_map = <<>>
    /\ Len(device_reads) = 3

(***************************************************************************)
(* The count of the memory map as the kernel reads it.                     *)
(***************************************************************************)
\* C24 as stated: the field n_memory_map_entries holds fixnum(n) = 2 * n when
\* the memory map holds n entries.
C24_CountIsFixnum ==
    ToWord(n_memory_map_entries) = fixnum(ToWord(Len(memory_map)))

\* C24 (amended): the field n_memory_map_entries holds the number n of entries
\* of the memory map as a plain unsigned 64-bit integer, which differs from
\* fixnum(n) as soon as the map has an entry.
C24_CountIsRaw ==
    /\ ToWord(n_memory_map_entries) = ToWord(Len(memory_map))
    /\ Len(memory_map) > 0 =>
          ToWord(n_memory_map_entries) # fixnum(ToWord(Len(memory_map)))

\* two ranges have been inserted as entries of their own
C24_Witness ==
    /\ log.outcome = "inserted"
    /\ Len(memory_map) = 2
    /\ n_memory_map_entries = 2
    /\ Fix(Len(memory_map)) = 4

(***************************************************************************)
(* The page chunks of load_page.                                           *)
(***************************************************************************)
\* load_page is about to be called for an entry it loads, with no page left
\* in the chunk: it asks memory_alloc for a fresh chunk
ChunkRequested ==
    /\ pc = "read_wired_pages"
    /\ loader.cursor < Len(block_map)
    /\ Offered(loader.freestanding, block_map[loader.cursor + 1].info)
    /\ Loads(block_map[loader.cursor + 1].info)
    /\ chunk.remaining = 0

\* C25 as stated: whenever load_page requests a fresh chunk, n_pages_loaded is
\* below page_count, so that the size asked for is a positive number of pages;
\* every chunk allocated has at least one page, and n_pages_loaded never
\* exceeds page_count.
C25_ChunkRequestsPositive ==
    /\ ChunkRequested => loader.n_pages_loaded < loader.page_count
    /\ \A n \in 1..Len(allocs) : allocs[n].stage = "wired_pages" => allocs[n].pages > 0
    /\ loader.n_pages_loaded <= loader.page_count

C25_HoldsWithBlocks == EveryEntryHasBlock => C25_ChunkRequestsPositive

(***************************************************************************)
(* The buddy lists as a whole.                                             *)
(***************************************************************************)
\* the blocks on the lists of one array of bins, as <<array, k, L>>
ListedBlocks(array, buddies) ==
    UNION { { <<array, k, BinList(buddies, k)[i]>> :
                i \in 1..Len(BinList(buddies, k)) } : k \in DOMAIN buddies }

AllBlocks == ListedBlocks(32, buddy_bin_32) \cup ListedBlocks(64, buddy_bin_64)

\* fixnum(0), the count of an empty bin
FixZero == Fix(0)

\* the sum of unfixnum(count) * 2^k over the bins k, k+1, ... of one array:
\* the pages its counts stand for
RECURSIVE CountedPages(_, _)
CountedPages(buddies, k) ==
    IF k \notin DOMAIN buddies THEN 0
    ELSE (IF buddies[k].count = FixZero THEN 0 ELSE Unfix(buddies[k].count) * 2^k)
         + CountedPages(buddies, k + 1)

\* C26: the blocks on the lists (L in bin k stands for the frames L .. L +
\* 2^k - 1) are pairwise disjoint, no block is listed twice, their union is
\* the set of released frames, and the counts of the bins add up to it: the
\* sum of unfixnum(count) * 2^k pages is the number of released frames.
C26_BlocksPartitionReleased ==
    LET blocks == AllBlocks IN
    /\ \A b1, b2 \in blocks :
          b1 # b2 => Block(b1[3], b1[2]) \cap Block(b2[3], b2[2]) = {}
    /\ Len(AllListed) = Cardinality(blocks)
    /\ UNION {Block(b[3], b[2]) : b \in blocks} = released
    /\ CountedPages(buddy_bin_32, 0) + CountedPages(buddy_bin_64, 0)
           = Cardinality(released)

\* seven frames released: blocks of orders 2, 1 and 0
C26_Witness ==
    /\ released = FirstFrame..(FirstFrame + 6)
    /\ BinList(buddy_bin_32, 2) = <<FirstFrame>>
    /\ BinList(buddy_bin_32, 1) = <<FirstFrame + 4>>
    /\ BinList(buddy_bin_32, 0) = <<FirstFrame + 6>>

\* the block that makes with the block at L an aligned block of the next order
Partner(k, L) == IF (L \div 2^k) % 2 = 0 THEN L + 2^k ELSE L - 2^k

\* every block of the array is aligned to its order, and below the top bin no
\* block is listed together with its buddy
Coalesced(buddies) ==
    \A k \in DOMAIN buddies :
        LET listed == BinList(buddies, k) IN
        \A i \in 1..Len(listed) :
            /\ listed[i] % 2^k = 0
            /\ (k + 1) \in DOMAIN buddies =>
                  \A j \in 1..Len(listed) : listed[j] # Partner(k, listed[i])

WellFormedList(buddies, k) ==
    IF buddies[k].first_page = nil
    THEN buddies[k].count = FixZero
    ELSE LET nodes == BinList(buddies, k) IN
         /\ buddies[k].count # FixZero
         /\ Len(nodes) = Unfix(buddies[k].count)
         /\ nodes # <<>>
         /\ buddies[k].first_page = Fix(nodes[1])
         /\ page_info_prev(page_info, nodes[1]) = nil
         /\ page_info_next(page_info, nodes[Len(nodes)]) = nil
         /\ \A i, j \in 1..Len(nodes) : i # j => nodes[i] # nodes[j]
         /\ \A i \in 1..(Len(nodes) - 1) :
               /\ page_info_next(page_info, nodes[i]) = Fix(nodes[i + 1])
               /\ page_info_prev(page_info, nodes[i + 1]) = Fix(nodes[i])

AfterFinalize == pc \in {"free_loop", "enter"}

\* no memory_alloc, no mmu_map, no device or file read, and kboot's memory
\* ranges, the memory map and the loader's records stay as they are
QuietStep ==
    /\ allocs' = allocs
    /\ kernel_mmu' = kernel_mmu
    /\ transition_mmu' = transition_mmu
    /\ device_reads' = device_reads
    /\ block_cache' = block_cache
    /\ range_type' = range_type
    /\ UNCHANGED <<memory_map, n_memory_map_entries, loader, block_map, chunk,
                   loaded, disk, nil>>

\* C30 as stated: once memory_finalize has been called, mezzano_loader_load
\* performs no memory_alloc, no mmu_map and no device or file read before
\* mezzano_arch_enter, and writes nothing but page-info records and buddy bins.
C30_OnlyPageInfoAndBinsWritten ==
    [][AfterFinalize => (QuietStep /\ efi_system_table' = efi_system_table)]_vars

\* C30 (amended): once memory_finalize has been called, mezzano_loader_load
\* performs no memory_alloc, no mmu_map and no device or file read before
\* mezzano_arch_enter, and kboot's memory ranges stay as finalised; it writes
\* page-info records and buddy bins and, on EFI only, in
\* mezzano_platform_finalize, the efi_system_table field of the boot
\* information.
C30_QuietAfterFinalize ==
    [][AfterFinalize =>
          /\ QuietStep
          /\ efi_system_table' # efi_system_table =>
                (pc = "enter" /\ loader.firmware = "efi")]_vars

\* the kernel is entered on EFI after the free loop released frames, marked
\* page-table frames and mezzano_platform_finalize stored the system table
C30_Witness ==
    /\ pc = "entered"
    /\ loader.firmware = "efi"
    /\ efi_system_table = "efi_system_table"
    /\ released # {}
    /\ \E f \in DOMAIN page_info : page_info_type(page_info, f) = page_type_page_table
    /\ allocs # <<>>
    /\ device_reads # <<>>

====
